---- MODULE Spec2Model ----
(***************************************************************************)
(* Model of the qstep stepping engine (src/ssnni.py): the gdb commands     *)
(* "ssi" and "nni" emulate step-into / step-over by decoding the           *)
(* instruction at $pc, planting temporary breakpoints on the addresses     *)
(* execution can continue at, resuming the target and deleting the         *)
(* breakpoints afterwards.                                                 *)
(*                                                                         *)
(* Text (disassembly lines, operands, command arguments, breakpoint        *)
(* location strings) is modelled as sequences of one-character strings so  *)
(* that the parsing code is modelled by what it does.                      *)
(***************************************************************************)
EXTENDS Integers, Sequences, FiniteSets, TLC

\* ------------------------------------------------------------------ bounds
\* Largest number of ssi/nni commands issued in one behaviour.
MaxInvokes == 2
\* Largest depth of the target's call stack.
MaxStack == 2
\* Largest repeat count given to a command.
MaxCount == 3

\* ------------------------------------------------------- text primitives
\* Python's None, as returned by _addr_from_operand (addresses are >= 0).
None == -1

\* A text is a sequence of characters, each a string.  A character stands as
\* itself where the module's lexer reads it and as the name of its code point
\* ("U+2028") where it does not: the backquote "U+0060", and above U+00FF
\* every character whose code point ends in a byte below 0x80.  The name is
\* understood for every character above U+007F, and what becomes of a
\* character given by name is named as well.
\*
\* The characters str.strip() and str.split(None) take for whitespace
\* (str.isspace): the blank, "\t", "\n", "\r", "\f"; U+000B,
\* U+001C..U+001F, U+0085, U+00A0, U+1680; U+2000..U+200A, U+2028, U+2029,
\* U+202F, U+205F, U+3000.
Whitespace ==
  {" ", "\t", "\n", "\r", "\f"}
  \cup {"", "", "", "", "", "", " ", " "}
  \cup {"U+0085", "U+00A0", "U+1680"}
  \cup {"U+2000", "U+2001", "U+2002", "U+2003", "U+2004", "U+2005",
        "U+2006", "U+2007", "U+2008", "U+2009", "U+200A", "U+2028",
        "U+2029", "U+202F", "U+205F", "U+3000"}

\* The whitespace int() drops around a number once the text is in ASCII:
\* the blank, "\t", "\n", "\r", "\f" and U+000B.
IntSpace == {" ", "\t", "\n", "\r", "\f", ""}

\* The whitespace below U+007F; int() leaves these characters as they are.
AsciiSpace == IntSpace \cup {"", "", "", ""}

\* The characters str.splitlines() ends a line at: "\n", "\r", "\f", U+000B,
\* U+001C..U+001E, U+0085, U+2028, U+2029.
LineBreaks ==
  {"\n", "\r", "\f"}
  \cup {"", "", "", "", ""}
  \cup {"U+0085", "U+2028", "U+2029"}

HexTab ==
  "0" :> 0 @@ "1" :> 1 @@ "2" :> 2 @@ "3" :> 3 @@ "4" :> 4 @@ "5" :> 5 @@
  "6" :> 6 @@ "7" :> 7 @@ "8" :> 8 @@ "9" :> 9 @@
  "a" :> 10 @@ "b" :> 11 @@ "c" :> 12 @@ "d" :> 13 @@ "e" :> 14 @@ "f" :> 15 @@
  "A" :> 10 @@ "B" :> 11 @@ "C" :> 12 @@ "D" :> 13 @@ "E" :> 14 @@ "F" :> 15

HexChars ==
  <<"0","1","2","3","4","5","6","7","8","9","a","b","c","d","e","f">>

\* str.lower(), one character at a time.  LowerFrom lists the characters
\* that have a lowercase form of one character, LowerTo the form at the same
\* position, by name where the character of LowerFrom is given by name;
\* U+0130 alone becomes two characters (see Lower).
LowerFrom ==
  <<"A", "B", "C", "D", "E", "F", "G", "H", "I", "J", "K", "L", "M", "N", "O",
    "P", "Q", "R", "S", "T", "U", "V", "W", "X", "Y", "Z", "À", "U+00C0", "Á",
    "U+00C1", "Â", "U+00C2", "Ã", "U+00C3", "Ä", "U+00C4", "Å", "U+00C5", "Æ",
    "U+00C6", "Ç", "U+00C7", "È", "U+00C8", "É", "U+00C9", "Ê", "U+00CA", "Ë",
    "U+00CB", "Ì", "U+00CC", "Í", "U+00CD", "Î", "U+00CE", "Ï", "U+00CF", "Ð",
    "U+00D0", "Ñ", "U+00D1", "Ò", "U+00D2", "Ó", "U+00D3", "Ô", "U+00D4", "Õ",
    "U+00D5", "Ö", "U+00D6", "Ø", "U+00D8", "Ù", "U+00D9", "Ú", "U+00DA", "Û",
    "U+00DB", "Ü", "U+00DC", "Ý", "U+00DD", "Þ", "U+00DE", "U+0100", "U+0102",
    "U+0104", "U+0106", "U+0108", "U+010A", "U+010C", "U+010E", "U+0110",
    "U+0112", "U+0114", "U+0116", "U+0118", "U+011A", "U+011C", "U+011E",
    "U+0120", "U+0122", "U+0124", "U+0126", "U+0128", "U+012A", "U+012C",
    "U+012E", "U+0132", "U+0134", "U+0136", "U+0139", "U+013B", "U+013D",
    "U+013F", "U+0141", "U+0143", "U+0145", "U+0147", "U+014A", "U+014C",
    "U+014E", "U+0150", "U+0152", "U+0154", "U+0156", "U+0158", "U+015A",
    "U+015C", "U+015E", "U+0160", "U+0162", "U+0164", "U+0166", "U+0168",
    "U+016A", "U+016C", "U+016E", "U+0170", "U+0172", "U+0174", "U+0176",
    "U+0178", "U+0179", "U+017B", "U+017D", "Ɓ", "U+0181", "Ƃ", "U+0182", "Ƅ",
    "U+0184", "Ɔ", "U+0186", "Ƈ", "U+0187", "Ɖ", "U+0189", "Ɗ", "U+018A", "Ƌ",
    "U+018B", "Ǝ", "U+018E", "Ə", "U+018F", "Ɛ", "U+0190", "Ƒ", "U+0191", "Ɠ",
    "U+0193", "Ɣ", "U+0194", "Ɩ", "U+0196", "Ɨ", "U+0197", "Ƙ", "U+0198", "Ɯ",
    "U+019C", "Ɲ", "U+019D", "Ɵ", "U+019F", "Ơ", "U+01A0", "Ƣ", "U+01A2", "Ƥ",
    "U+01A4", "Ʀ", "U+01A6", "Ƨ", "U+01A7", "Ʃ", "U+01A9", "Ƭ", "U+01AC", "Ʈ",
    "U+01AE", "Ư", "U+01AF", "Ʊ", "U+01B1", "Ʋ", "U+01B2", "Ƴ", "U+01B3", "Ƶ",
    "U+01B5", "Ʒ", "U+01B7", "Ƹ", "U+01B8", "Ƽ", "U+01BC", "Ǆ", "U+01C4", "ǅ",
    "U+01C5", "Ǉ", "U+01C7", "ǈ", "U+01C8", "Ǌ", "U+01CA", "ǋ", "U+01CB", "Ǎ",
    "U+01CD", "Ǐ", "U+01CF", "Ǒ", "U+01D1", "Ǔ", "U+01D3", "Ǖ", "U+01D5", "Ǘ",
    "U+01D7", "Ǚ", "U+01D9", "Ǜ", "U+01DB", "Ǟ", "U+01DE", "Ǡ", "U+01E0", "Ǣ",
    "U+01E2", "Ǥ", "U+01E4", "Ǧ", "U+01E6", "Ǩ", "U+01E8", "Ǫ", "U+01EA", "Ǭ",
    "U+01EC", "Ǯ", "U+01EE", "Ǳ", "U+01F1", "ǲ", "U+01F2", "Ǵ", "U+01F4", "Ƕ",
    "U+01F6", "Ƿ", "U+01F7", "Ǹ", "U+01F8", "Ǻ", "U+01FA", "Ǽ", "U+01FC", "Ǿ",
    "U+01FE", "U+0200", "U+0202", "U+0204", "U+0206", "U+0208", "U+020A",
    "U+020C", "U+020E", "U+0210", "U+0212", "U+0214", "U+0216", "U+0218",
    "U+021A", "U+021C", "U+021E", "U+0220", "U+0222", "U+0224", "U+0226",
    "U+0228", "U+022A", "U+022C", "U+022E", "U+0230", "U+0232", "U+023A",
    "U+023B", "U+023D", "U+023E", "U+0241", "U+0243", "U+0244", "U+0245",
    "U+0246", "U+0248", "U+024A", "U+024C", "U+024E", "U+0370", "U+0372",
    "U+0376", "U+037F", "Ά", "U+0386", "Έ", "U+0388", "Ή", "U+0389", "Ί",
    "U+038A", "Ό", "U+038C", "Ύ", "U+038E", "Ώ", "U+038F", "Α", "U+0391", "Β",
    "U+0392", "Γ", "U+0393", "Δ", "U+0394", "Ε", "U+0395", "Ζ", "U+0396", "Η",
    "U+0397", "Θ", "U+0398", "Ι", "U+0399", "Κ", "U+039A", "Λ", "U+039B", "Μ",
    "U+039C", "Ν", "U+039D", "Ξ", "U+039E", "Ο", "U+039F", "Π", "U+03A0", "Ρ",
    "U+03A1", "Σ", "U+03A3", "Τ", "U+03A4", "Υ", "U+03A5", "Φ", "U+03A6", "Χ",
    "U+03A7", "Ψ", "U+03A8", "Ω", "U+03A9", "Ϊ", "U+03AA", "Ϋ", "U+03AB", "Ϗ",
    "U+03CF", "Ϙ", "U+03D8", "Ϛ", "U+03DA", "Ϝ", "U+03DC", "Ϟ", "U+03DE", "Ϡ",
    "U+03E0", "Ϣ", "U+03E2", "Ϥ", "U+03E4", "Ϧ", "U+03E6", "Ϩ", "U+03E8", "Ϫ",
    "U+03EA", "Ϭ", "U+03EC", "Ϯ", "U+03EE", "ϴ", "U+03F4", "Ϸ", "U+03F7", "Ϲ",
    "U+03F9", "Ϻ", "U+03FA", "Ͻ", "U+03FD", "Ͼ", "U+03FE", "Ͽ", "U+03FF",
    "U+0400", "U+0401", "U+0402", "U+0403", "U+0404", "U+0405", "U+0406",
    "U+0407", "U+0408", "U+0409", "U+040A", "U+040B", "U+040C", "U+040D",
    "U+040E", "U+040F", "U+0410", "U+0411", "U+0412", "U+0413", "U+0414",
    "U+0415", "U+0416", "U+0417", "U+0418", "U+0419", "U+041A", "U+041B",
    "U+041C", "U+041D", "U+041E", "U+041F", "U+0420", "U+0421", "U+0422",
    "U+0423", "U+0424", "U+0425", "U+0426", "U+0427", "U+0428", "U+0429",
    "U+042A", "U+042B", "U+042C", "U+042D", "U+042E", "U+042F", "U+0460",
    "U+0462", "U+0464", "U+0466", "U+0468", "U+046A", "U+046C", "U+046E",
    "U+0470", "U+0472", "U+0474", "U+0476", "U+0478", "U+047A", "U+047C",
    "U+047E", "Ҁ", "U+0480", "Ҋ", "U+048A", "Ҍ", "U+048C", "Ҏ", "U+048E", "Ґ",
    "U+0490", "Ғ", "U+0492", "Ҕ", "U+0494", "Җ", "U+0496", "Ҙ", "U+0498", "Қ",
    "U+049A", "Ҝ", "U+049C", "Ҟ", "U+049E", "Ҡ", "U+04A0", "Ң", "U+04A2", "Ҥ",
    "U+04A4", "Ҧ", "U+04A6", "Ҩ", "U+04A8", "Ҫ", "U+04AA", "Ҭ", "U+04AC", "Ү",
    "U+04AE", "Ұ", "U+04B0", "Ҳ", "U+04B2", "Ҵ", "U+04B4", "Ҷ", "U+04B6", "Ҹ",
    "U+04B8", "Һ", "U+04BA", "Ҽ", "U+04BC", "Ҿ", "U+04BE", "Ӏ", "U+04C0", "Ӂ",
    "U+04C1", "Ӄ", "U+04C3", "Ӆ", "U+04C5", "Ӈ", "U+04C7", "Ӊ", "U+04C9", "Ӌ",
    "U+04CB", "Ӎ", "U+04CD", "Ӑ", "U+04D0", "Ӓ", "U+04D2", "Ӕ", "U+04D4", "Ӗ",
    "U+04D6", "Ә", "U+04D8", "Ӛ", "U+04DA", "Ӝ", "U+04DC", "Ӟ", "U+04DE", "Ӡ",
    "U+04E0", "Ӣ", "U+04E2", "Ӥ", "U+04E4", "Ӧ", "U+04E6", "Ө", "U+04E8", "Ӫ",
    "U+04EA", "Ӭ", "U+04EC", "Ӯ", "U+04EE", "Ӱ", "U+04F0", "Ӳ", "U+04F2", "Ӵ",
    "U+04F4", "Ӷ", "U+04F6", "Ӹ", "U+04F8", "Ӻ", "U+04FA", "Ӽ", "U+04FC", "Ӿ",
    "U+04FE", "U+0500", "U+0502", "U+0504", "U+0506", "U+0508", "U+050A",
    "U+050C", "U+050E", "U+0510", "U+0512", "U+0514", "U+0516", "U+0518",
    "U+051A", "U+051C", "U+051E", "U+0520", "U+0522", "U+0524", "U+0526",
    "U+0528", "U+052A", "U+052C", "U+052E", "U+0531", "U+0532", "U+0533",
    "U+0534", "U+0535", "U+0536", "U+0537", "U+0538", "U+0539", "U+053A",
    "U+053B", "U+053C", "U+053D", "U+053E", "U+053F", "U+0540", "U+0541",
    "U+0542", "U+0543", "U+0544", "U+0545", "U+0546", "U+0547", "U+0548",
    "U+0549", "U+054A", "U+054B", "U+054C", "U+054D", "U+054E", "U+054F",
    "U+0550", "U+0551", "U+0552", "U+0553", "U+0554", "U+0555", "U+0556", "Ⴀ",
    "U+10A0", "Ⴁ", "U+10A1", "Ⴂ", "U+10A2", "Ⴃ", "U+10A3", "Ⴄ", "U+10A4", "Ⴅ",
    "U+10A5", "Ⴆ", "U+10A6", "Ⴇ", "U+10A7", "Ⴈ", "U+10A8", "Ⴉ", "U+10A9", "Ⴊ",
    "U+10AA", "Ⴋ", "U+10AB", "Ⴌ", "U+10AC", "Ⴍ", "U+10AD", "Ⴎ", "U+10AE", "Ⴏ",
    "U+10AF", "Ⴐ", "U+10B0", "Ⴑ", "U+10B1", "Ⴒ", "U+10B2", "Ⴓ", "U+10B3", "Ⴔ",
    "U+10B4", "Ⴕ", "U+10B5", "Ⴖ", "U+10B6", "Ⴗ", "U+10B7", "Ⴘ", "U+10B8", "Ⴙ",
    "U+10B9", "Ⴚ", "U+10BA", "Ⴛ", "U+10BB", "Ⴜ", "U+10BC", "Ⴝ", "U+10BD", "Ⴞ",
    "U+10BE", "Ⴟ", "U+10BF", "Ⴠ", "U+10C0", "Ⴡ", "U+10C1", "Ⴢ", "U+10C2", "Ⴣ",
    "U+10C3", "Ⴤ", "U+10C4", "Ⴥ", "U+10C5", "Ⴧ", "U+10C7", "Ⴭ", "U+10CD", "Ꭰ",
    "U+13A0", "Ꭱ", "U+13A1", "Ꭲ", "U+13A2", "Ꭳ", "U+13A3", "Ꭴ", "U+13A4", "Ꭵ",
    "U+13A5", "Ꭶ", "U+13A6", "Ꭷ", "U+13A7", "Ꭸ", "U+13A8", "Ꭹ", "U+13A9", "Ꭺ",
    "U+13AA", "Ꭻ", "U+13AB", "Ꭼ", "U+13AC", "Ꭽ", "U+13AD", "Ꭾ", "U+13AE", "Ꭿ",
    "U+13AF", "Ꮀ", "U+13B0", "Ꮁ", "U+13B1", "Ꮂ", "U+13B2", "Ꮃ", "U+13B3", "Ꮄ",
    "U+13B4", "Ꮅ", "U+13B5", "Ꮆ", "U+13B6", "Ꮇ", "U+13B7", "Ꮈ", "U+13B8", "Ꮉ",
    "U+13B9", "Ꮊ", "U+13BA", "Ꮋ", "U+13BB", "Ꮌ", "U+13BC", "Ꮍ", "U+13BD", "Ꮎ",
    "U+13BE", "Ꮏ", "U+13BF", "Ꮐ", "U+13C0", "Ꮑ", "U+13C1", "Ꮒ", "U+13C2", "Ꮓ",
    "U+13C3", "Ꮔ", "U+13C4", "Ꮕ", "U+13C5", "Ꮖ", "U+13C6", "Ꮗ", "U+13C7", "Ꮘ",
    "U+13C8", "Ꮙ", "U+13C9", "Ꮚ", "U+13CA", "Ꮛ", "U+13CB", "Ꮜ", "U+13CC", "Ꮝ",
    "U+13CD", "Ꮞ", "U+13CE", "Ꮟ", "U+13CF", "Ꮠ", "U+13D0", "Ꮡ", "U+13D1", "Ꮢ",
    "U+13D2", "Ꮣ", "U+13D3", "Ꮤ", "U+13D4", "Ꮥ", "U+13D5", "Ꮦ", "U+13D6", "Ꮧ",
    "U+13D7", "Ꮨ", "U+13D8", "Ꮩ", "U+13D9", "Ꮪ", "U+13DA", "Ꮫ", "U+13DB", "Ꮬ",
    "U+13DC", "Ꮭ", "U+13DD", "Ꮮ", "U+13DE", "Ꮯ", "U+13DF", "Ꮰ", "U+13E0", "Ꮱ",
    "U+13E1", "Ꮲ", "U+13E2", "Ꮳ", "U+13E3", "Ꮴ", "U+13E4", "Ꮵ", "U+13E5", "Ꮶ",
    "U+13E6", "Ꮷ", "U+13E7", "Ꮸ", "U+13E8", "Ꮹ", "U+13E9", "Ꮺ", "U+13EA", "Ꮻ",
    "U+13EB", "Ꮼ", "U+13EC", "Ꮽ", "U+13ED", "Ꮾ", "U+13EE", "Ꮿ", "U+13EF", "Ᏸ",
    "U+13F0", "Ᏹ", "U+13F1", "Ᏺ", "U+13F2", "Ᏻ", "U+13F3", "Ᏼ", "U+13F4", "Ᏽ",
    "U+13F5", "Ა", "U+1C90", "Ბ", "U+1C91", "Გ", "U+1C92", "Დ", "U+1C93", "Ე",
    "U+1C94", "Ვ", "U+1C95", "Ზ", "U+1C96", "Თ", "U+1C97", "Ი", "U+1C98", "Კ",
    "U+1C99", "Ლ", "U+1C9A", "Მ", "U+1C9B", "Ნ", "U+1C9C", "Ო", "U+1C9D", "Პ",
    "U+1C9E", "Ჟ", "U+1C9F", "Რ", "U+1CA0", "Ს", "U+1CA1", "Ტ", "U+1CA2", "Უ",
    "U+1CA3", "Ფ", "U+1CA4", "Ქ", "U+1CA5", "Ღ", "U+1CA6", "Ყ", "U+1CA7", "Შ",
    "U+1CA8", "Ჩ", "U+1CA9", "Ც", "U+1CAA", "Ძ", "U+1CAB", "Წ", "U+1CAC", "Ჭ",
    "U+1CAD", "Ხ", "U+1CAE", "Ჯ", "U+1CAF", "Ჰ", "U+1CB0", "Ჱ", "U+1CB1", "Ჲ",
    "U+1CB2", "Ჳ", "U+1CB3", "Ჴ", "U+1CB4", "Ჵ", "U+1CB5", "Ჶ", "U+1CB6", "Ჷ",
    "U+1CB7", "Ჸ", "U+1CB8", "Ჹ", "U+1CB9", "Ჺ", "U+1CBA", "Ჽ", "U+1CBD", "Ჾ",
    "U+1CBE", "Ჿ", "U+1CBF", "U+1E00", "U+1E02", "U+1E04", "U+1E06", "U+1E08",
    "U+1E0A", "U+1E0C", "U+1E0E", "U+1E10", "U+1E12", "U+1E14", "U+1E16",
    "U+1E18", "U+1E1A", "U+1E1C", "U+1E1E", "U+1E20", "U+1E22", "U+1E24",
    "U+1E26", "U+1E28", "U+1E2A", "U+1E2C", "U+1E2E", "U+1E30", "U+1E32",
    "U+1E34", "U+1E36", "U+1E38", "U+1E3A", "U+1E3C", "U+1E3E", "U+1E40",
    "U+1E42", "U+1E44", "U+1E46", "U+1E48", "U+1E4A", "U+1E4C", "U+1E4E",
    "U+1E50", "U+1E52", "U+1E54", "U+1E56", "U+1E58", "U+1E5A", "U+1E5C",
    "U+1E5E", "U+1E60", "U+1E62", "U+1E64", "U+1E66", "U+1E68", "U+1E6A",
    "U+1E6C", "U+1E6E", "U+1E70", "U+1E72", "U+1E74", "U+1E76", "U+1E78",
    "U+1E7A", "U+1E7C", "U+1E7E", "Ẁ", "U+1E80", "Ẃ", "U+1E82", "Ẅ", "U+1E84",
    "Ẇ", "U+1E86", "Ẉ", "U+1E88", "Ẋ", "U+1E8A", "Ẍ", "U+1E8C", "Ẏ", "U+1E8E",
    "Ẑ", "U+1E90", "Ẓ", "U+1E92", "Ẕ", "U+1E94", "ẞ", "U+1E9E", "Ạ", "U+1EA0",
    "Ả", "U+1EA2", "Ấ", "U+1EA4", "Ầ", "U+1EA6", "Ẩ", "U+1EA8", "Ẫ", "U+1EAA",
    "Ậ", "U+1EAC", "Ắ", "U+1EAE", "Ằ", "U+1EB0", "Ẳ", "U+1EB2", "Ẵ", "U+1EB4",
    "Ặ", "U+1EB6", "Ẹ", "U+1EB8", "Ẻ", "U+1EBA", "Ẽ", "U+1EBC", "Ế", "U+1EBE",
    "Ề", "U+1EC0", "Ể", "U+1EC2", "Ễ", "U+1EC4", "Ệ", "U+1EC6", "Ỉ", "U+1EC8",
    "Ị", "U+1ECA", "Ọ", "U+1ECC", "Ỏ", "U+1ECE", "Ố", "U+1ED0", "Ồ", "U+1ED2",
    "Ổ", "U+1ED4", "Ỗ", "U+1ED6", "Ộ", "U+1ED8", "Ớ", "U+1EDA", "Ờ", "U+1EDC",
    "Ở", "U+1EDE", "Ỡ", "U+1EE0", "Ợ", "U+1EE2", "Ụ", "U+1EE4", "Ủ", "U+1EE6",
    "Ứ", "U+1EE8", "Ừ", "U+1EEA", "Ử", "U+1EEC", "Ữ", "U+1EEE", "Ự", "U+1EF0",
    "Ỳ", "U+1EF2", "Ỵ", "U+1EF4", "Ỷ", "U+1EF6", "Ỹ", "U+1EF8", "Ỻ", "U+1EFA",
    "Ỽ", "U+1EFC", "Ỿ", "U+1EFE", "U+1F08", "U+1F09", "U+1F0A", "U+1F0B",
    "U+1F0C", "U+1F0D", "U+1F0E", "U+1F0F", "U+1F18", "U+1F19", "U+1F1A",
    "U+1F1B", "U+1F1C", "U+1F1D", "U+1F28", "U+1F29", "U+1F2A", "U+1F2B",
    "U+1F2C", "U+1F2D", "U+1F2E", "U+1F2F", "U+1F38", "U+1F39", "U+1F3A",
    "U+1F3B", "U+1F3C", "U+1F3D", "U+1F3E", "U+1F3F", "U+1F48", "U+1F49",
    "U+1F4A", "U+1F4B", "U+1F4C", "U+1F4D", "U+1F59", "U+1F5B", "U+1F5D",
    "U+1F5F", "U+1F68", "U+1F69", "U+1F6A", "U+1F6B", "U+1F6C", "U+1F6D",
    "U+1F6E", "U+1F6F", "ᾈ", "U+1F88", "ᾉ", "U+1F89", "ᾊ", "U+1F8A", "ᾋ",
    "U+1F8B", "ᾌ", "U+1F8C", "ᾍ", "U+1F8D", "ᾎ", "U+1F8E", "ᾏ", "U+1F8F", "ᾘ",
    "U+1F98", "ᾙ", "U+1F99", "ᾚ", "U+1F9A", "ᾛ", "U+1F9B", "ᾜ", "U+1F9C", "ᾝ",
    "U+1F9D", "ᾞ", "U+1F9E", "ᾟ", "U+1F9F", "ᾨ", "U+1FA8", "ᾩ", "U+1FA9", "ᾪ",
    "U+1FAA", "ᾫ", "U+1FAB", "ᾬ", "U+1FAC", "ᾭ", "U+1FAD", "ᾮ", "U+1FAE", "ᾯ",
    "U+1FAF", "Ᾰ", "U+1FB8", "Ᾱ", "U+1FB9", "Ὰ", "U+1FBA", "Ά", "U+1FBB", "ᾼ",
    "U+1FBC", "Ὲ", "U+1FC8", "Έ", "U+1FC9", "Ὴ", "U+1FCA", "Ή", "U+1FCB", "ῌ",
    "U+1FCC", "Ῐ", "U+1FD8", "Ῑ", "U+1FD9", "Ὶ", "U+1FDA", "Ί", "U+1FDB", "Ῠ",
    "U+1FE8", "Ῡ", "U+1FE9", "Ὺ", "U+1FEA", "Ύ", "U+1FEB", "Ῥ", "U+1FEC", "Ὸ",
    "U+1FF8", "Ό", "U+1FF9", "Ὼ", "U+1FFA", "Ώ", "U+1FFB", "ῼ", "U+1FFC",
    "U+2126", "U+212A", "U+212B", "U+2132", "U+2160", "U+2161", "U+2162",
    "U+2163", "U+2164", "U+2165", "U+2166", "U+2167", "U+2168", "U+2169",
    "U+216A", "U+216B", "U+216C", "U+216D", "U+216E", "U+216F", "Ↄ", "U+2183",
    "Ⓐ", "U+24B6", "Ⓑ", "U+24B7", "Ⓒ", "U+24B8", "Ⓓ", "U+24B9", "Ⓔ", "U+24BA",
    "Ⓕ", "U+24BB", "Ⓖ", "U+24BC", "Ⓗ", "U+24BD", "Ⓘ", "U+24BE", "Ⓙ", "U+24BF",
    "Ⓚ", "U+24C0", "Ⓛ", "U+24C1", "Ⓜ", "U+24C2", "Ⓝ", "U+24C3", "Ⓞ", "U+24C4",
    "Ⓟ", "U+24C5", "Ⓠ", "U+24C6", "Ⓡ", "U+24C7", "Ⓢ", "U+24C8", "Ⓣ", "U+24C9",
    "Ⓤ", "U+24CA", "Ⓥ", "U+24CB", "Ⓦ", "U+24CC", "Ⓧ", "U+24CD", "Ⓨ", "U+24CE",
    "Ⓩ", "U+24CF", "U+2C00", "U+2C01", "U+2C02", "U+2C03", "U+2C04", "U+2C05",
    "U+2C06", "U+2C07", "U+2C08", "U+2C09", "U+2C0A", "U+2C0B", "U+2C0C",
    "U+2C0D", "U+2C0E", "U+2C0F", "U+2C10", "U+2C11", "U+2C12", "U+2C13",
    "U+2C14", "U+2C15", "U+2C16", "U+2C17", "U+2C18", "U+2C19", "U+2C1A",
    "U+2C1B", "U+2C1C", "U+2C1D", "U+2C1E", "U+2C1F", "U+2C20", "U+2C21",
    "U+2C22", "U+2C23", "U+2C24", "U+2C25", "U+2C26", "U+2C27", "U+2C28",
    "U+2C29", "U+2C2A", "U+2C2B", "U+2C2C", "U+2C2D", "U+2C2E", "U+2C2F",
    "U+2C60", "U+2C62", "U+2C63", "U+2C64", "U+2C67", "U+2C69", "U+2C6B",
    "U+2C6D", "U+2C6E", "U+2C6F", "U+2C70", "U+2C72", "U+2C75", "U+2C7E",
    "U+2C7F", "Ⲁ", "U+2C80", "Ⲃ", "U+2C82", "Ⲅ", "U+2C84", "Ⲇ", "U+2C86", "Ⲉ",
    "U+2C88", "Ⲋ", "U+2C8A", "Ⲍ", "U+2C8C", "Ⲏ", "U+2C8E", "Ⲑ", "U+2C90", "Ⲓ",
    "U+2C92", "Ⲕ", "U+2C94", "Ⲗ", "U+2C96", "Ⲙ", "U+2C98", "Ⲛ", "U+2C9A", "Ⲝ",
    "U+2C9C", "Ⲟ", "U+2C9E", "Ⲡ", "U+2CA0", "Ⲣ", "U+2CA2", "Ⲥ", "U+2CA4", "Ⲧ",
    "U+2CA6", "Ⲩ", "U+2CA8", "Ⲫ", "U+2CAA", "Ⲭ", "U+2CAC", "Ⲯ", "U+2CAE", "Ⲱ",
    "U+2CB0", "Ⲳ", "U+2CB2", "Ⲵ", "U+2CB4", "Ⲷ", "U+2CB6", "Ⲹ", "U+2CB8", "Ⲻ",
    "U+2CBA", "Ⲽ", "U+2CBC", "Ⲿ", "U+2CBE", "Ⳁ", "U+2CC0", "Ⳃ", "U+2CC2", "Ⳅ",
    "U+2CC4", "Ⳇ", "U+2CC6", "Ⳉ", "U+2CC8", "Ⳋ", "U+2CCA", "Ⳍ", "U+2CCC", "Ⳏ",
    "U+2CCE", "Ⳑ", "U+2CD0", "Ⳓ", "U+2CD2", "Ⳕ", "U+2CD4", "Ⳗ", "U+2CD6", "Ⳙ",
    "U+2CD8", "Ⳛ", "U+2CDA", "Ⳝ", "U+2CDC", "Ⳟ", "U+2CDE", "Ⳡ", "U+2CE0", "Ⳣ",
    "U+2CE2", "Ⳬ", "U+2CEB", "Ⳮ", "U+2CED", "Ⳳ", "U+2CF2", "U+A640", "U+A642",
    "U+A644", "U+A646", "U+A648", "U+A64A", "U+A64C", "U+A64E", "U+A650",
    "U+A652", "U+A654", "U+A656", "U+A658", "U+A65A", "U+A65C", "U+A65E",
    "U+A660", "U+A662", "U+A664", "U+A666", "U+A668", "U+A66A", "U+A66C", "Ꚁ",
    "U+A680", "Ꚃ", "U+A682", "Ꚅ", "U+A684", "Ꚇ", "U+A686", "Ꚉ", "U+A688", "Ꚋ",
    "U+A68A", "Ꚍ", "U+A68C", "Ꚏ", "U+A68E", "Ꚑ", "U+A690", "Ꚓ", "U+A692", "Ꚕ",
    "U+A694", "Ꚗ", "U+A696", "Ꚙ", "U+A698", "Ꚛ", "U+A69A", "U+A722", "U+A724",
    "U+A726", "U+A728", "U+A72A", "U+A72C", "U+A72E", "U+A732", "U+A734",
    "U+A736", "U+A738", "U+A73A", "U+A73C", "U+A73E", "U+A740", "U+A742",
    "U+A744", "U+A746", "U+A748", "U+A74A", "U+A74C", "U+A74E", "U+A750",
    "U+A752", "U+A754", "U+A756", "U+A758", "U+A75A", "U+A75C", "U+A75E",
    "U+A760", "U+A762", "U+A764", "U+A766", "U+A768", "U+A76A", "U+A76C",
    "U+A76E", "U+A779", "U+A77B", "U+A77D", "U+A77E", "Ꞁ", "U+A780", "Ꞃ",
    "U+A782", "Ꞅ", "U+A784", "Ꞇ", "U+A786", "Ꞌ", "U+A78B", "Ɥ", "U+A78D", "Ꞑ",
    "U+A790", "Ꞓ", "U+A792", "Ꞗ", "U+A796", "Ꞙ", "U+A798", "Ꞛ", "U+A79A", "Ꞝ",
    "U+A79C", "Ꞟ", "U+A79E", "Ꞡ", "U+A7A0", "Ꞣ", "U+A7A2", "Ꞥ", "U+A7A4", "Ꞧ",
    "U+A7A6", "Ꞩ", "U+A7A8", "Ɦ", "U+A7AA", "Ɜ", "U+A7AB", "Ɡ", "U+A7AC", "Ɬ",
    "U+A7AD", "Ɪ", "U+A7AE", "Ʞ", "U+A7B0", "Ʇ", "U+A7B1", "Ʝ", "U+A7B2", "Ꭓ",
    "U+A7B3", "Ꞵ", "U+A7B4", "Ꞷ", "U+A7B6", "Ꞹ", "U+A7B8", "Ꞻ", "U+A7BA", "Ꞽ",
    "U+A7BC", "Ꞿ", "U+A7BE", "Ꟁ", "U+A7C0", "Ꟃ", "U+A7C2", "Ꞔ", "U+A7C4", "Ʂ",
    "U+A7C5", "Ᶎ", "U+A7C6", "Ꟈ", "U+A7C7", "Ꟊ", "U+A7C9", "Ꟑ", "U+A7D0", "Ꟗ",
    "U+A7D6", "Ꟙ", "U+A7D8", "Ꟶ", "U+A7F5", "U+FF21", "U+FF22", "U+FF23",
    "U+FF24", "U+FF25", "U+FF26", "U+FF27", "U+FF28", "U+FF29", "U+FF2A",
    "U+FF2B", "U+FF2C", "U+FF2D", "U+FF2E", "U+FF2F", "U+FF30", "U+FF31",
    "U+FF32", "U+FF33", "U+FF34", "U+FF35", "U+FF36", "U+FF37", "U+FF38",
    "U+FF39", "U+FF3A", "U+10400", "U+10401", "U+10402", "U+10403", "U+10404",
    "U+10405", "U+10406", "U+10407", "U+10408", "U+10409", "U+1040A",
    "U+1040B", "U+1040C", "U+1040D", "U+1040E", "U+1040F", "U+10410",
    "U+10411", "U+10412", "U+10413", "U+10414", "U+10415", "U+10416",
    "U+10417", "U+10418", "U+10419", "U+1041A", "U+1041B", "U+1041C",
    "U+1041D", "U+1041E", "U+1041F", "U+10420", "U+10421", "U+10422",
    "U+10423", "U+10424", "U+10425", "U+10426", "U+10427", "U+104B0",
    "U+104B1", "U+104B2", "U+104B3", "U+104B4", "U+104B5", "U+104B6",
    "U+104B7", "U+104B8", "U+104B9", "U+104BA", "U+104BB", "U+104BC",
    "U+104BD", "U+104BE", "U+104BF", "U+104C0", "U+104C1", "U+104C2",
    "U+104C3", "U+104C4", "U+104C5", "U+104C6", "U+104C7", "U+104C8",
    "U+104C9", "U+104CA", "U+104CB", "U+104CC", "U+104CD", "U+104CE",
    "U+104CF", "U+104D0", "U+104D1", "U+104D2", "U+104D3", "U+10570",
    "U+10571", "U+10572", "U+10573", "U+10574", "U+10575", "U+10576",
    "U+10577", "U+10578", "U+10579", "U+1057A", "U+1057C", "U+1057D",
    "U+1057E", "U+1057F", "U+10580", "U+10581", "U+10582", "U+10583",
    "U+10584", "U+10585", "U+10586", "U+10587", "U+10588", "U+10589",
    "U+1058A", "U+1058C", "U+1058D", "U+1058E", "U+1058F", "U+10590",
    "U+10591", "U+10592", "U+10594", "U+10595", "U+10C80", "U+10C81",
    "U+10C82", "U+10C83", "U+10C84", "U+10C85", "U+10C86", "U+10C87",
    "U+10C88", "U+10C89", "U+10C8A", "U+10C8B", "U+10C8C", "U+10C8D",
    "U+10C8E", "U+10C8F", "U+10C90", "U+10C91", "U+10C92", "U+10C93",
    "U+10C94", "U+10C95", "U+10C96", "U+10C97", "U+10C98", "U+10C99",
    "U+10C9A", "U+10C9B", "U+10C9C", "U+10C9D", "U+10C9E", "U+10C9F",
    "U+10CA0", "U+10CA1", "U+10CA2", "U+10CA3", "U+10CA4", "U+10CA5",
    "U+10CA6", "U+10CA7", "U+10CA8", "U+10CA9", "U+10CAA", "U+10CAB",
    "U+10CAC", "U+10CAD", "U+10CAE", "U+10CAF", "U+10CB0", "U+10CB1",
    "U+10CB2", "U+118A0", "U+118A1", "U+118A2", "U+118A3", "U+118A4",
    "U+118A5", "U+118A6", "U+118A7", "U+118A8", "U+118A9", "U+118AA",
    "U+118AB", "U+118AC", "U+118AD", "U+118AE", "U+118AF", "U+118B0",
    "U+118B1", "U+118B2", "U+118B3", "U+118B4", "U+118B5", "U+118B6",
    "U+118B7", "U+118B8", "U+118B9", "U+118BA", "U+118BB", "U+118BC",
    "U+118BD", "U+118BE", "U+118BF", "U+16E40", "U+16E41", "U+16E42",
    "U+16E43", "U+16E44", "U+16E45", "U+16E46", "U+16E47", "U+16E48",
    "U+16E49", "U+16E4A", "U+16E4B", "U+16E4C", "U+16E4D", "U+16E4E",
    "U+16E4F", "U+16E50", "U+16E51", "U+16E52", "U+16E53", "U+16E54",
    "U+16E55", "U+16E56", "U+16E57", "U+16E58", "U+16E59", "U+16E5A",
    "U+16E5B", "U+16E5C", "U+16E5D", "U+16E5E", "U+16E5F", "U+1E900",
    "U+1E901", "U+1E902", "U+1E903", "U+1E904", "U+1E905", "U+1E906",
    "U+1E907", "U+1E908", "U+1E909", "U+1E90A", "U+1E90B", "U+1E90C",
    "U+1E90D", "U+1E90E", "U+1E90F", "U+1E910", "U+1E911", "U+1E912",
    "U+1E913", "U+1E914", "U+1E915", "U+1E916", "U+1E917", "U+1E918",
    "U+1E919", "U+1E91A", "U+1E91B", "U+1E91C", "U+1E91D", "U+1E91E",
    "U+1E91F", "U+1E920", "U+1E921">>

LowerTo ==
  <<"a", "b", "c", "d", "e", "f", "g", "h", "i", "j", "k", "l", "m", "n", "o",
    "p", "q", "r", "s", "t", "u", "v", "w", "x", "y", "z", "à", "U+00E0", "á",
    "U+00E1", "â", "U+00E2", "ã", "U+00E3", "ä", "U+00E4", "å", "U+00E5", "æ",
    "U+00E6", "ç", "U+00E7", "è", "U+00E8", "é", "U+00E9", "ê", "U+00EA", "ë",
    "U+00EB", "ì", "U+00EC", "í", "U+00ED", "î", "U+00EE", "ï", "U+00EF", "ð",
    "U+00F0", "ñ", "U+00F1", "ò", "U+00F2", "ó", "U+00F3", "ô", "U+00F4", "õ",
    "U+00F5", "ö", "U+00F6", "ø", "U+00F8", "ù", "U+00F9", "ú", "U+00FA", "û",
    "U+00FB", "ü", "U+00FC", "ý", "U+00FD", "þ", "U+00FE", "U+0101", "U+0103",
    "U+0105", "U+0107", "U+0109", "U+010B", "U+010D", "U+010F", "U+0111",
    "U+0113", "U+0115", "U+0117", "U+0119", "U+011B", "U+011D", "U+011F",
    "U+0121", "U+0123", "U+0125", "U+0127", "U+0129", "U+012B", "U+012D",
    "U+012F", "U+0133", "U+0135", "U+0137", "U+013A", "U+013C", "U+013E",
    "U+0140", "U+0142", "U+0144", "U+0146", "U+0148", "U+014B", "U+014D",
    "U+014F", "U+0151", "U+0153", "U+0155", "U+0157", "U+0159", "U+015B",
    "U+015D", "U+015F", "U+0161", "U+0163", "U+0165", "U+0167", "U+0169",
    "U+016B", "U+016D", "U+016F", "U+0171", "U+0173", "U+0175", "U+0177",
    "U+00FF", "U+017A", "U+017C", "U+017E", "U+0253", "U+0253", "ƃ", "U+0183",
    "ƅ", "U+0185", "U+0254", "U+0254", "ƈ", "U+0188", "U+0256", "U+0256",
    "U+0257", "U+0257", "ƌ", "U+018C", "ǝ", "U+01DD", "U+0259", "U+0259",
    "U+025B", "U+025B", "ƒ", "U+0192", "U+0260", "U+0260", "U+0263", "U+0263",
    "U+0269", "U+0269", "U+0268", "U+0268", "ƙ", "U+0199", "U+026F", "U+026F",
    "U+0272", "U+0272", "U+0275", "U+0275", "ơ", "U+01A1", "ƣ", "U+01A3", "ƥ",
    "U+01A5", "ʀ", "U+0280", "ƨ", "U+01A8", "ʃ", "U+0283", "ƭ", "U+01AD", "ʈ",
    "U+0288", "ư", "U+01B0", "ʊ", "U+028A", "ʋ", "U+028B", "ƴ", "U+01B4", "ƶ",
    "U+01B6", "ʒ", "U+0292", "ƹ", "U+01B9", "ƽ", "U+01BD", "ǆ", "U+01C6", "ǆ",
    "U+01C6", "ǉ", "U+01C9", "ǉ", "U+01C9", "ǌ", "U+01CC", "ǌ", "U+01CC", "ǎ",
    "U+01CE", "ǐ", "U+01D0", "ǒ", "U+01D2", "ǔ", "U+01D4", "ǖ", "U+01D6", "ǘ",
    "U+01D8", "ǚ", "U+01DA", "ǜ", "U+01DC", "ǟ", "U+01DF", "ǡ", "U+01E1", "ǣ",
    "U+01E3", "ǥ", "U+01E5", "ǧ", "U+01E7", "ǩ", "U+01E9", "ǫ", "U+01EB", "ǭ",
    "U+01ED", "ǯ", "U+01EF", "ǳ", "U+01F3", "ǳ", "U+01F3", "ǵ", "U+01F5", "ƕ",
    "U+0195", "ƿ", "U+01BF", "ǹ", "U+01F9", "ǻ", "U+01FB", "ǽ", "U+01FD", "ǿ",
    "U+01FF", "U+0201", "U+0203", "U+0205", "U+0207", "U+0209", "U+020B",
    "U+020D", "U+020F", "U+0211", "U+0213", "U+0215", "U+0217", "U+0219",
    "U+021B", "U+021D", "U+021F", "U+019E", "U+0223", "U+0225", "U+0227",
    "U+0229", "U+022B", "U+022D", "U+022F", "U+0231", "U+0233", "U+2C65",
    "U+023C", "U+019A", "U+2C66", "U+0242", "U+0180", "U+0289", "U+028C",
    "U+0247", "U+0249", "U+024B", "U+024D", "U+024F", "U+0371", "U+0373",
    "U+0377", "U+03F3", "ά", "U+03AC", "έ", "U+03AD", "ή", "U+03AE", "ί",
    "U+03AF", "ό", "U+03CC", "ύ", "U+03CD", "ώ", "U+03CE", "α", "U+03B1", "β",
    "U+03B2", "γ", "U+03B3", "δ", "U+03B4", "ε", "U+03B5", "ζ", "U+03B6", "η",
    "U+03B7", "θ", "U+03B8", "ι", "U+03B9", "κ", "U+03BA", "λ", "U+03BB", "μ",
    "U+03BC", "ν", "U+03BD", "ξ", "U+03BE", "ο", "U+03BF", "π", "U+03C0", "ρ",
    "U+03C1", "σ", "U+03C3", "τ", "U+03C4", "υ", "U+03C5", "φ", "U+03C6", "χ",
    "U+03C7", "ψ", "U+03C8", "ω", "U+03C9", "ϊ", "U+03CA", "ϋ", "U+03CB", "ϗ",
    "U+03D7", "ϙ", "U+03D9", "ϛ", "U+03DB", "ϝ", "U+03DD", "ϟ", "U+03DF", "ϡ",
    "U+03E1", "ϣ", "U+03E3", "ϥ", "U+03E5", "ϧ", "U+03E7", "ϩ", "U+03E9", "ϫ",
    "U+03EB", "ϭ", "U+03ED", "ϯ", "U+03EF", "θ", "U+03B8", "ϸ", "U+03F8", "ϲ",
    "U+03F2", "ϻ", "U+03FB", "U+037B", "U+037B", "U+037C", "U+037C", "U+037D",
    "U+037D", "U+0450", "U+0451", "U+0452", "U+0453", "U+0454", "U+0455",
    "U+0456", "U+0457", "U+0458", "U+0459", "U+045A", "U+045B", "U+045C",
    "U+045D", "U+045E", "U+045F", "U+0430", "U+0431", "U+0432", "U+0433",
    "U+0434", "U+0435", "U+0436", "U+0437", "U+0438", "U+0439", "U+043A",
    "U+043B", "U+043C", "U+043D", "U+043E", "U+043F", "U+0440", "U+0441",
    "U+0442", "U+0443", "U+0444", "U+0445", "U+0446", "U+0447", "U+0448",
    "U+0449", "U+044A", "U+044B", "U+044C", "U+044D", "U+044E", "U+044F",
    "U+0461", "U+0463", "U+0465", "U+0467", "U+0469", "U+046B", "U+046D",
    "U+046F", "U+0471", "U+0473", "U+0475", "U+0477", "U+0479", "U+047B",
    "U+047D", "U+047F", "ҁ", "U+0481", "ҋ", "U+048B", "ҍ", "U+048D", "ҏ",
    "U+048F", "ґ", "U+0491", "ғ", "U+0493", "ҕ", "U+0495", "җ", "U+0497", "ҙ",
    "U+0499", "қ", "U+049B", "ҝ", "U+049D", "ҟ", "U+049F", "ҡ", "U+04A1", "ң",
    "U+04A3", "ҥ", "U+04A5", "ҧ", "U+04A7", "ҩ", "U+04A9", "ҫ", "U+04AB", "ҭ",
    "U+04AD", "ү", "U+04AF", "ұ", "U+04B1", "ҳ", "U+04B3", "ҵ", "U+04B5", "ҷ",
    "U+04B7", "ҹ", "U+04B9", "һ", "U+04BB", "ҽ", "U+04BD", "ҿ", "U+04BF", "ӏ",
    "U+04CF", "ӂ", "U+04C2", "ӄ", "U+04C4", "ӆ", "U+04C6", "ӈ", "U+04C8", "ӊ",
    "U+04CA", "ӌ", "U+04CC", "ӎ", "U+04CE", "ӑ", "U+04D1", "ӓ", "U+04D3", "ӕ",
    "U+04D5", "ӗ", "U+04D7", "ә", "U+04D9", "ӛ", "U+04DB", "ӝ", "U+04DD", "ӟ",
    "U+04DF", "ӡ", "U+04E1", "ӣ", "U+04E3", "ӥ", "U+04E5", "ӧ", "U+04E7", "ө",
    "U+04E9", "ӫ", "U+04EB", "ӭ", "U+04ED", "ӯ", "U+04EF", "ӱ", "U+04F1", "ӳ",
    "U+04F3", "ӵ", "U+04F5", "ӷ", "U+04F7", "ӹ", "U+04F9", "ӻ", "U+04FB", "ӽ",
    "U+04FD", "ӿ", "U+04FF", "U+0501", "U+0503", "U+0505", "U+0507", "U+0509",
    "U+050B", "U+050D", "U+050F", "U+0511", "U+0513", "U+0515", "U+0517",
    "U+0519", "U+051B", "U+051D", "U+051F", "U+0521", "U+0523", "U+0525",
    "U+0527", "U+0529", "U+052B", "U+052D", "U+052F", "U+0561", "U+0562",
    "U+0563", "U+0564", "U+0565", "U+0566", "U+0567", "U+0568", "U+0569",
    "U+056A", "U+056B", "U+056C", "U+056D", "U+056E", "U+056F", "U+0570",
    "U+0571", "U+0572", "U+0573", "U+0574", "U+0575", "U+0576", "U+0577",
    "U+0578", "U+0579", "U+057A", "U+057B", "U+057C", "U+057D", "U+057E",
    "U+057F", "U+0580", "U+0581", "U+0582", "U+0583", "U+0584", "U+0585",
    "U+0586", "U+2D00", "U+2D00", "U+2D01", "U+2D01", "U+2D02", "U+2D02",
    "U+2D03", "U+2D03", "U+2D04", "U+2D04", "U+2D05", "U+2D05", "U+2D06",
    "U+2D06", "U+2D07", "U+2D07", "U+2D08", "U+2D08", "U+2D09", "U+2D09",
    "U+2D0A", "U+2D0A", "U+2D0B", "U+2D0B", "U+2D0C", "U+2D0C", "U+2D0D",
    "U+2D0D", "U+2D0E", "U+2D0E", "U+2D0F", "U+2D0F", "U+2D10", "U+2D10",
    "U+2D11", "U+2D11", "U+2D12", "U+2D12", "U+2D13", "U+2D13", "U+2D14",
    "U+2D14", "U+2D15", "U+2D15", "U+2D16", "U+2D16", "U+2D17", "U+2D17",
    "U+2D18", "U+2D18", "U+2D19", "U+2D19", "U+2D1A", "U+2D1A", "U+2D1B",
    "U+2D1B", "U+2D1C", "U+2D1C", "U+2D1D", "U+2D1D", "U+2D1E", "U+2D1E",
    "U+2D1F", "U+2D1F", "U+2D20", "U+2D20", "U+2D21", "U+2D21", "U+2D22",
    "U+2D22", "U+2D23", "U+2D23", "U+2D24", "U+2D24", "U+2D25", "U+2D25",
    "U+2D27", "U+2D27", "U+2D2D", "U+2D2D", "U+AB70", "U+AB70", "U+AB71",
    "U+AB71", "U+AB72", "U+AB72", "U+AB73", "U+AB73", "U+AB74", "U+AB74",
    "U+AB75", "U+AB75", "U+AB76", "U+AB76", "U+AB77", "U+AB77", "U+AB78",
    "U+AB78", "U+AB79", "U+AB79", "U+AB7A", "U+AB7A", "U+AB7B", "U+AB7B",
    "U+AB7C", "U+AB7C", "U+AB7D", "U+AB7D", "U+AB7E", "U+AB7E", "U+AB7F",
    "U+AB7F", "ꮀ", "U+AB80", "ꮁ", "U+AB81", "ꮂ", "U+AB82", "ꮃ", "U+AB83", "ꮄ",
    "U+AB84", "ꮅ", "U+AB85", "ꮆ", "U+AB86", "ꮇ", "U+AB87", "ꮈ", "U+AB88", "ꮉ",
    "U+AB89", "ꮊ", "U+AB8A", "ꮋ", "U+AB8B", "ꮌ", "U+AB8C", "ꮍ", "U+AB8D", "ꮎ",
    "U+AB8E", "ꮏ", "U+AB8F", "ꮐ", "U+AB90", "ꮑ", "U+AB91", "ꮒ", "U+AB92", "ꮓ",
    "U+AB93", "ꮔ", "U+AB94", "ꮕ", "U+AB95", "ꮖ", "U+AB96", "ꮗ", "U+AB97", "ꮘ",
    "U+AB98", "ꮙ", "U+AB99", "ꮚ", "U+AB9A", "ꮛ", "U+AB9B", "ꮜ", "U+AB9C", "ꮝ",
    "U+AB9D", "ꮞ", "U+AB9E", "ꮟ", "U+AB9F", "ꮠ", "U+ABA0", "ꮡ", "U+ABA1", "ꮢ",
    "U+ABA2", "ꮣ", "U+ABA3", "ꮤ", "U+ABA4", "ꮥ", "U+ABA5", "ꮦ", "U+ABA6", "ꮧ",
    "U+ABA7", "ꮨ", "U+ABA8", "ꮩ", "U+ABA9", "ꮪ", "U+ABAA", "ꮫ", "U+ABAB", "ꮬ",
    "U+ABAC", "ꮭ", "U+ABAD", "ꮮ", "U+ABAE", "ꮯ", "U+ABAF", "ꮰ", "U+ABB0", "ꮱ",
    "U+ABB1", "ꮲ", "U+ABB2", "ꮳ", "U+ABB3", "ꮴ", "U+ABB4", "ꮵ", "U+ABB5", "ꮶ",
    "U+ABB6", "ꮷ", "U+ABB7", "ꮸ", "U+ABB8", "ꮹ", "U+ABB9", "ꮺ", "U+ABBA", "ꮻ",
    "U+ABBB", "ꮼ", "U+ABBC", "ꮽ", "U+ABBD", "ꮾ", "U+ABBE", "ꮿ", "U+ABBF", "ᏸ",
    "U+13F8", "ᏹ", "U+13F9", "ᏺ", "U+13FA", "ᏻ", "U+13FB", "ᏼ", "U+13FC", "ᏽ",
    "U+13FD", "ა", "U+10D0", "ბ", "U+10D1", "გ", "U+10D2", "დ", "U+10D3", "ე",
    "U+10D4", "ვ", "U+10D5", "ზ", "U+10D6", "თ", "U+10D7", "ი", "U+10D8", "კ",
    "U+10D9", "ლ", "U+10DA", "მ", "U+10DB", "ნ", "U+10DC", "ო", "U+10DD", "პ",
    "U+10DE", "ჟ", "U+10DF", "რ", "U+10E0", "ს", "U+10E1", "ტ", "U+10E2", "უ",
    "U+10E3", "ფ", "U+10E4", "ქ", "U+10E5", "ღ", "U+10E6", "ყ", "U+10E7", "შ",
    "U+10E8", "ჩ", "U+10E9", "ც", "U+10EA", "ძ", "U+10EB", "წ", "U+10EC", "ჭ",
    "U+10ED", "ხ", "U+10EE", "ჯ", "U+10EF", "ჰ", "U+10F0", "ჱ", "U+10F1", "ჲ",
    "U+10F2", "ჳ", "U+10F3", "ჴ", "U+10F4", "ჵ", "U+10F5", "ჶ", "U+10F6", "ჷ",
    "U+10F7", "ჸ", "U+10F8", "ჹ", "U+10F9", "ჺ", "U+10FA", "ჽ", "U+10FD", "ჾ",
    "U+10FE", "ჿ", "U+10FF", "U+1E01", "U+1E03", "U+1E05", "U+1E07", "U+1E09",
    "U+1E0B", "U+1E0D", "U+1E0F", "U+1E11", "U+1E13", "U+1E15", "U+1E17",
    "U+1E19", "U+1E1B", "U+1E1D", "U+1E1F", "U+1E21", "U+1E23", "U+1E25",
    "U+1E27", "U+1E29", "U+1E2B", "U+1E2D", "U+1E2F", "U+1E31", "U+1E33",
    "U+1E35", "U+1E37", "U+1E39", "U+1E3B", "U+1E3D", "U+1E3F", "U+1E41",
    "U+1E43", "U+1E45", "U+1E47", "U+1E49", "U+1E4B", "U+1E4D", "U+1E4F",
    "U+1E51", "U+1E53", "U+1E55", "U+1E57", "U+1E59", "U+1E5B", "U+1E5D",
    "U+1E5F", "U+1E61", "U+1E63", "U+1E65", "U+1E67", "U+1E69", "U+1E6B",
    "U+1E6D", "U+1E6F", "U+1E71", "U+1E73", "U+1E75", "U+1E77", "U+1E79",
    "U+1E7B", "U+1E7D", "U+1E7F", "ẁ", "U+1E81", "ẃ", "U+1E83", "ẅ", "U+1E85",
    "ẇ", "U+1E87", "ẉ", "U+1E89", "ẋ", "U+1E8B", "ẍ", "U+1E8D", "ẏ", "U+1E8F",
    "ẑ", "U+1E91", "ẓ", "U+1E93", "ẕ", "U+1E95", "ß", "U+00DF", "ạ", "U+1EA1",
    "ả", "U+1EA3", "ấ", "U+1EA5", "ầ", "U+1EA7", "ẩ", "U+1EA9", "ẫ", "U+1EAB",
    "ậ", "U+1EAD", "ắ", "U+1EAF", "ằ", "U+1EB1", "ẳ", "U+1EB3", "ẵ", "U+1EB5",
    "ặ", "U+1EB7", "ẹ", "U+1EB9", "ẻ", "U+1EBB", "ẽ", "U+1EBD", "ế", "U+1EBF",
    "ề", "U+1EC1", "ể", "U+1EC3", "ễ", "U+1EC5", "ệ", "U+1EC7", "ỉ", "U+1EC9",
    "ị", "U+1ECB", "ọ", "U+1ECD", "ỏ", "U+1ECF", "ố", "U+1ED1", "ồ", "U+1ED3",
    "ổ", "U+1ED5", "ỗ", "U+1ED7", "ộ", "U+1ED9", "ớ", "U+1EDB", "ờ", "U+1EDD",
    "ở", "U+1EDF", "ỡ", "U+1EE1", "ợ", "U+1EE3", "ụ", "U+1EE5", "ủ", "U+1EE7",
    "ứ", "U+1EE9", "ừ", "U+1EEB", "ử", "U+1EED", "ữ", "U+1EEF", "ự", "U+1EF1",
    "ỳ", "U+1EF3", "ỵ", "U+1EF5", "ỷ", "U+1EF7", "ỹ", "U+1EF9", "ỻ", "U+1EFB",
    "ỽ", "U+1EFD", "ỿ", "U+1EFF", "U+1F00", "U+1F01", "U+1F02", "U+1F03",
    "U+1F04", "U+1F05", "U+1F06", "U+1F07", "U+1F10", "U+1F11", "U+1F12",
    "U+1F13", "U+1F14", "U+1F15", "U+1F20", "U+1F21", "U+1F22", "U+1F23",
    "U+1F24", "U+1F25", "U+1F26", "U+1F27", "U+1F30", "U+1F31", "U+1F32",
    "U+1F33", "U+1F34", "U+1F35", "U+1F36", "U+1F37", "U+1F40", "U+1F41",
    "U+1F42", "U+1F43", "U+1F44", "U+1F45", "U+1F51", "U+1F53", "U+1F55",
    "U+1F57", "U+1F60", "U+1F61", "U+1F62", "U+1F63", "U+1F64", "U+1F65",
    "U+1F66", "U+1F67", "ᾀ", "U+1F80", "ᾁ", "U+1F81", "ᾂ", "U+1F82", "ᾃ",
    "U+1F83", "ᾄ", "U+1F84", "ᾅ", "U+1F85", "ᾆ", "U+1F86", "ᾇ", "U+1F87", "ᾐ",
    "U+1F90", "ᾑ", "U+1F91", "ᾒ", "U+1F92", "ᾓ", "U+1F93", "ᾔ", "U+1F94", "ᾕ",
    "U+1F95", "ᾖ", "U+1F96", "ᾗ", "U+1F97", "ᾠ", "U+1FA0", "ᾡ", "U+1FA1", "ᾢ",
    "U+1FA2", "ᾣ", "U+1FA3", "ᾤ", "U+1FA4", "ᾥ", "U+1FA5", "ᾦ", "U+1FA6", "ᾧ",
    "U+1FA7", "ᾰ", "U+1FB0", "ᾱ", "U+1FB1", "U+1F70", "U+1F70", "U+1F71",
    "U+1F71", "ᾳ", "U+1FB3", "U+1F72", "U+1F72", "U+1F73", "U+1F73", "U+1F74",
    "U+1F74", "U+1F75", "U+1F75", "ῃ", "U+1FC3", "ῐ", "U+1FD0", "ῑ", "U+1FD1",
    "U+1F76", "U+1F76", "U+1F77", "U+1F77", "ῠ", "U+1FE0", "ῡ", "U+1FE1",
    "U+1F7A", "U+1F7A", "U+1F7B", "U+1F7B", "ῥ", "U+1FE5", "U+1F78", "U+1F78",
    "U+1F79", "U+1F79", "U+1F7C", "U+1F7C", "U+1F7D", "U+1F7D", "ῳ", "U+1FF3",
    "U+03C9", "k", "U+00E5", "U+214E", "U+2170", "U+2171", "U+2172", "U+2173",
    "U+2174", "U+2175", "U+2176", "U+2177", "U+2178", "U+2179", "U+217A",
    "U+217B", "U+217C", "U+217D", "U+217E", "U+217F", "ↄ", "U+2184", "ⓐ",
    "U+24D0", "ⓑ", "U+24D1", "ⓒ", "U+24D2", "ⓓ", "U+24D3", "ⓔ", "U+24D4", "ⓕ",
    "U+24D5", "ⓖ", "U+24D6", "ⓗ", "U+24D7", "ⓘ", "U+24D8", "ⓙ", "U+24D9", "ⓚ",
    "U+24DA", "ⓛ", "U+24DB", "ⓜ", "U+24DC", "ⓝ", "U+24DD", "ⓞ", "U+24DE", "ⓟ",
    "U+24DF", "ⓠ", "U+24E0", "ⓡ", "U+24E1", "ⓢ", "U+24E2", "ⓣ", "U+24E3", "ⓤ",
    "U+24E4", "ⓥ", "U+24E5", "ⓦ", "U+24E6", "ⓧ", "U+24E7", "ⓨ", "U+24E8", "ⓩ",
    "U+24E9", "U+2C30", "U+2C31", "U+2C32", "U+2C33", "U+2C34", "U+2C35",
    "U+2C36", "U+2C37", "U+2C38", "U+2C39", "U+2C3A", "U+2C3B", "U+2C3C",
    "U+2C3D", "U+2C3E", "U+2C3F", "U+2C40", "U+2C41", "U+2C42", "U+2C43",
    "U+2C44", "U+2C45", "U+2C46", "U+2C47", "U+2C48", "U+2C49", "U+2C4A",
    "U+2C4B", "U+2C4C", "U+2C4D", "U+2C4E", "U+2C4F", "U+2C50", "U+2C51",
    "U+2C52", "U+2C53", "U+2C54", "U+2C55", "U+2C56", "U+2C57", "U+2C58",
    "U+2C59", "U+2C5A", "U+2C5B", "U+2C5C", "U+2C5D", "U+2C5E", "U+2C5F",
    "U+2C61", "U+026B", "U+1D7D", "U+027D", "U+2C68", "U+2C6A", "U+2C6C",
    "U+0251", "U+0271", "U+0250", "U+0252", "U+2C73", "U+2C76", "U+023F",
    "U+0240", "ⲁ", "U+2C81", "ⲃ", "U+2C83", "ⲅ", "U+2C85", "ⲇ", "U+2C87", "ⲉ",
    "U+2C89", "ⲋ", "U+2C8B", "ⲍ", "U+2C8D", "ⲏ", "U+2C8F", "ⲑ", "U+2C91", "ⲓ",
    "U+2C93", "ⲕ", "U+2C95", "ⲗ", "U+2C97", "ⲙ", "U+2C99", "ⲛ", "U+2C9B", "ⲝ",
    "U+2C9D", "ⲟ", "U+2C9F", "ⲡ", "U+2CA1", "ⲣ", "U+2CA3", "ⲥ", "U+2CA5", "ⲧ",
    "U+2CA7", "ⲩ", "U+2CA9", "ⲫ", "U+2CAB", "ⲭ", "U+2CAD", "ⲯ", "U+2CAF", "ⲱ",
    "U+2CB1", "ⲳ", "U+2CB3", "ⲵ", "U+2CB5", "ⲷ", "U+2CB7", "ⲹ", "U+2CB9", "ⲻ",
    "U+2CBB", "ⲽ", "U+2CBD", "ⲿ", "U+2CBF", "ⳁ", "U+2CC1", "ⳃ", "U+2CC3", "ⳅ",
    "U+2CC5", "ⳇ", "U+2CC7", "ⳉ", "U+2CC9", "ⳋ", "U+2CCB", "ⳍ", "U+2CCD", "ⳏ",
    "U+2CCF", "ⳑ", "U+2CD1", "ⳓ", "U+2CD3", "ⳕ", "U+2CD5", "ⳗ", "U+2CD7", "ⳙ",
    "U+2CD9", "ⳛ", "U+2CDB", "ⳝ", "U+2CDD", "ⳟ", "U+2CDF", "ⳡ", "U+2CE1", "ⳣ",
    "U+2CE3", "ⳬ", "U+2CEC", "ⳮ", "U+2CEE", "ⳳ", "U+2CF3", "U+A641", "U+A643",
    "U+A645", "U+A647", "U+A649", "U+A64B", "U+A64D", "U+A64F", "U+A651",
    "U+A653", "U+A655", "U+A657", "U+A659", "U+A65B", "U+A65D", "U+A65F",
    "U+A661", "U+A663", "U+A665", "U+A667", "U+A669", "U+A66B", "U+A66D", "ꚁ",
    "U+A681", "ꚃ", "U+A683", "ꚅ", "U+A685", "ꚇ", "U+A687", "ꚉ", "U+A689", "ꚋ",
    "U+A68B", "ꚍ", "U+A68D", "ꚏ", "U+A68F", "ꚑ", "U+A691", "ꚓ", "U+A693", "ꚕ",
    "U+A695", "ꚗ", "U+A697", "ꚙ", "U+A699", "ꚛ", "U+A69B", "U+A723", "U+A725",
    "U+A727", "U+A729", "U+A72B", "U+A72D", "U+A72F", "U+A733", "U+A735",
    "U+A737", "U+A739", "U+A73B", "U+A73D", "U+A73F", "U+A741", "U+A743",
    "U+A745", "U+A747", "U+A749", "U+A74B", "U+A74D", "U+A74F", "U+A751",
    "U+A753", "U+A755", "U+A757", "U+A759", "U+A75B", "U+A75D", "U+A75F",
    "U+A761", "U+A763", "U+A765", "U+A767", "U+A769", "U+A76B", "U+A76D",
    "U+A76F", "U+A77A", "U+A77C", "U+1D79", "U+A77F", "ꞁ", "U+A781", "ꞃ",
    "U+A783", "ꞅ", "U+A785", "ꞇ", "U+A787", "ꞌ", "U+A78C", "U+0265", "U+0265",
    "ꞑ", "U+A791", "ꞓ", "U+A793", "ꞗ", "U+A797", "ꞙ", "U+A799", "ꞛ", "U+A79B",
    "ꞝ", "U+A79D", "ꞟ", "U+A79F", "ꞡ", "U+A7A1", "ꞣ", "U+A7A3", "ꞥ", "U+A7A5",
    "ꞧ", "U+A7A7", "ꞩ", "U+A7A9", "U+0266", "U+0266", "U+025C", "U+025C",
    "U+0261", "U+0261", "U+026C", "U+026C", "U+026A", "U+026A", "ʞ", "U+029E",
    "ʇ", "U+0287", "ʝ", "U+029D", "U+AB53", "U+AB53", "ꞵ", "U+A7B5", "ꞷ",
    "U+A7B7", "ꞹ", "U+A7B9", "ꞻ", "U+A7BB", "ꞽ", "U+A7BD", "ꞿ", "U+A7BF", "ꟁ",
    "U+A7C1", "ꟃ", "U+A7C3", "ꞔ", "U+A794", "ʂ", "U+0282", "ᶎ", "U+1D8E", "ꟈ",
    "U+A7C8", "ꟊ", "U+A7CA", "ꟑ", "U+A7D1", "ꟗ", "U+A7D7", "ꟙ", "U+A7D9", "ꟶ",
    "U+A7F6", "U+FF41", "U+FF42", "U+FF43", "U+FF44", "U+FF45", "U+FF46",
    "U+FF47", "U+FF48", "U+FF49", "U+FF4A", "U+FF4B", "U+FF4C", "U+FF4D",
    "U+FF4E", "U+FF4F", "U+FF50", "U+FF51", "U+FF52", "U+FF53", "U+FF54",
    "U+FF55", "U+FF56", "U+FF57", "U+FF58", "U+FF59", "U+FF5A", "U+10428",
    "U+10429", "U+1042A", "U+1042B", "U+1042C", "U+1042D", "U+1042E",
    "U+1042F", "U+10430", "U+10431", "U+10432", "U+10433", "U+10434",
    "U+10435", "U+10436", "U+10437", "U+10438", "U+10439", "U+1043A",
    "U+1043B", "U+1043C", "U+1043D", "U+1043E", "U+1043F", "U+10440",
    "U+10441", "U+10442", "U+10443", "U+10444", "U+10445", "U+10446",
    "U+10447", "U+10448", "U+10449", "U+1044A", "U+1044B", "U+1044C",
    "U+1044D", "U+1044E", "U+1044F", "U+104D8", "U+104D9", "U+104DA",
    "U+104DB", "U+104DC", "U+104DD", "U+104DE", "U+104DF", "U+104E0",
    "U+104E1", "U+104E2", "U+104E3", "U+104E4", "U+104E5", "U+104E6",
    "U+104E7", "U+104E8", "U+104E9", "U+104EA", "U+104EB", "U+104EC",
    "U+104ED", "U+104EE", "U+104EF", "U+104F0", "U+104F1", "U+104F2",
    "U+104F3", "U+104F4", "U+104F5", "U+104F6", "U+104F7", "U+104F8",
    "U+104F9", "U+104FA", "U+104FB", "U+10597", "U+10598", "U+10599",
    "U+1059A", "U+1059B", "U+1059C", "U+1059D", "U+1059E", "U+1059F",
    "U+105A0", "U+105A1", "U+105A3", "U+105A4", "U+105A5", "U+105A6",
    "U+105A7", "U+105A8", "U+105A9", "U+105AA", "U+105AB", "U+105AC",
    "U+105AD", "U+105AE", "U+105AF", "U+105B0", "U+105B1", "U+105B3",
    "U+105B4", "U+105B5", "U+105B6", "U+105B7", "U+105B8", "U+105B9",
    "U+105BB", "U+105BC", "U+10CC0", "U+10CC1", "U+10CC2", "U+10CC3",
    "U+10CC4", "U+10CC5", "U+10CC6", "U+10CC7", "U+10CC8", "U+10CC9",
    "U+10CCA", "U+10CCB", "U+10CCC", "U+10CCD", "U+10CCE", "U+10CCF",
    "U+10CD0", "U+10CD1", "U+10CD2", "U+10CD3", "U+10CD4", "U+10CD5",
    "U+10CD6", "U+10CD7", "U+10CD8", "U+10CD9", "U+10CDA", "U+10CDB",
    "U+10CDC", "U+10CDD", "U+10CDE", "U+10CDF", "U+10CE0", "U+10CE1",
    "U+10CE2", "U+10CE3", "U+10CE4", "U+10CE5", "U+10CE6", "U+10CE7",
    "U+10CE8", "U+10CE9", "U+10CEA", "U+10CEB", "U+10CEC", "U+10CED",
    "U+10CEE", "U+10CEF", "U+10CF0", "U+10CF1", "U+10CF2", "U+118C0",
    "U+118C1", "U+118C2", "U+118C3", "U+118C4", "U+118C5", "U+118C6",
    "U+118C7", "U+118C8", "U+118C9", "U+118CA", "U+118CB", "U+118CC",
    "U+118CD", "U+118CE", "U+118CF", "U+118D0", "U+118D1", "U+118D2",
    "U+118D3", "U+118D4", "U+118D5", "U+118D6", "U+118D7", "U+118D8",
    "U+118D9", "U+118DA", "U+118DB", "U+118DC", "U+118DD", "U+118DE",
    "U+118DF", "U+16E60", "U+16E61", "U+16E62", "U+16E63", "U+16E64",
    "U+16E65", "U+16E66", "U+16E67", "U+16E68", "U+16E69", "U+16E6A",
    "U+16E6B", "U+16E6C", "U+16E6D", "U+16E6E", "U+16E6F", "U+16E70",
    "U+16E71", "U+16E72", "U+16E73", "U+16E74", "U+16E75", "U+16E76",
    "U+16E77", "U+16E78", "U+16E79", "U+16E7A", "U+16E7B", "U+16E7C",
    "U+16E7D", "U+16E7E", "U+16E7F", "U+1E922", "U+1E923", "U+1E924",
    "U+1E925", "U+1E926", "U+1E927", "U+1E928", "U+1E929", "U+1E92A",
    "U+1E92B", "U+1E92C", "U+1E92D", "U+1E92E", "U+1E92F", "U+1E930",
    "U+1E931", "U+1E932", "U+1E933", "U+1E934", "U+1E935", "U+1E936",
    "U+1E937", "U+1E938", "U+1E939", "U+1E93A", "U+1E93B", "U+1E93C",
    "U+1E93D", "U+1E93E", "U+1E93F", "U+1E940", "U+1E941", "U+1E942",
    "U+1E943">>

LowerTab ==
  [c \in {LowerFrom[i] : i \in DOMAIN LowerFrom} |->
     LowerTo[CHOOSE i \in DOMAIN LowerFrom : LowerFrom[i] = c]]

\* The cased characters (uppercase, lowercase or titlecase).
Cased ==
  {"A", "B", "C", "D", "E", "F", "G", "H", "I", "J", "K", "L", "M", "N", "O",
   "P", "Q", "R", "S", "T", "U", "V", "W", "X", "Y", "Z", "a", "b", "c", "d",
   "e", "f", "g", "h", "i", "j", "k", "l", "m", "n", "o", "p", "q", "r", "s",
   "t", "u", "v", "w", "x", "y", "z", "ª", "U+00AA", "µ", "U+00B5", "º",
   "U+00BA", "À", "U+00C0", "Á", "U+00C1", "Â", "U+00C2", "Ã", "U+00C3", "Ä",
   "U+00C4", "Å", "U+00C5", "Æ", "U+00C6", "Ç", "U+00C7", "È", "U+00C8", "É",
   "U+00C9", "Ê", "U+00CA", "Ë", "U+00CB", "Ì", "U+00CC", "Í", "U+00CD", "Î",
   "U+00CE", "Ï", "U+00CF", "Ð", "U+00D0", "Ñ", "U+00D1", "Ò", "U+00D2", "Ó",
   "U+00D3", "Ô", "U+00D4", "Õ", "U+00D5", "Ö", "U+00D6", "Ø", "U+00D8", "Ù",
   "U+00D9", "Ú", "U+00DA", "Û", "U+00DB", "Ü", "U+00DC", "Ý", "U+00DD", "Þ",
   "U+00DE", "ß", "U+00DF", "à", "U+00E0", "á", "U+00E1", "â", "U+00E2", "ã",
   "U+00E3", "ä", "U+00E4", "å", "U+00E5", "æ", "U+00E6", "ç", "U+00E7", "è",
   "U+00E8", "é", "U+00E9", "ê", "U+00EA", "ë", "U+00EB", "ì", "U+00EC", "í",
   "U+00ED", "î", "U+00EE", "ï", "U+00EF", "ð", "U+00F0", "ñ", "U+00F1", "ò",
   "U+00F2", "ó", "U+00F3", "ô", "U+00F4", "õ", "U+00F5", "ö", "U+00F6", "ø",
   "U+00F8", "ù", "U+00F9", "ú", "U+00FA", "û", "U+00FB", "ü", "U+00FC", "ý",
   "U+00FD", "þ", "U+00FE", "ÿ", "U+00FF", "U+0100", "U+0101", "U+0102",
   "U+0103", "U+0104", "U+0105", "U+0106", "U+0107", "U+0108", "U+0109",
   "U+010A", "U+010B", "U+010C", "U+010D", "U+010E", "U+010F", "U+0110",
   "U+0111", "U+0112", "U+0113", "U+0114", "U+0115", "U+0116", "U+0117",
   "U+0118", "U+0119", "U+011A", "U+011B", "U+011C", "U+011D", "U+011E",
   "U+011F", "U+0120", "U+0121", "U+0122", "U+0123", "U+0124", "U+0125",
   "U+0126", "U+0127", "U+0128", "U+0129", "U+012A", "U+012B", "U+012C",
   "U+012D", "U+012E", "U+012F", "U+0130", "U+0131", "U+0132", "U+0133",
   "U+0134", "U+0135", "U+0136", "U+0137", "U+0138", "U+0139", "U+013A",
   "U+013B", "U+013C", "U+013D", "U+013E", "U+013F", "U+0140", "U+0141",
   "U+0142", "U+0143", "U+0144", "U+0145", "U+0146", "U+0147", "U+0148",
   "U+0149", "U+014A", "U+014B", "U+014C", "U+014D", "U+014E", "U+014F",
   "U+0150", "U+0151", "U+0152", "U+0153", "U+0154", "U+0155", "U+0156",
   "U+0157", "U+0158", "U+0159", "U+015A", "U+015B", "U+015C", "U+015D",
   "U+015E", "U+015F", "U+0160", "U+0161", "U+0162", "U+0163", "U+0164",
   "U+0165", "U+0166", "U+0167", "U+0168", "U+0169", "U+016A", "U+016B",
   "U+016C", "U+016D", "U+016E", "U+016F", "U+0170", "U+0171", "U+0172",
   "U+0173", "U+0174", "U+0175", "U+0176", "U+0177", "U+0178", "U+0179",
   "U+017A", "U+017B", "U+017C", "U+017D", "U+017E", "U+017F", "ƀ", "U+0180",
   "Ɓ", "U+0181", "Ƃ", "U+0182", "ƃ", "U+0183", "Ƅ", "U+0184", "ƅ", "U+0185",
   "Ɔ", "U+0186", "Ƈ", "U+0187", "ƈ", "U+0188", "Ɖ", "U+0189", "Ɗ", "U+018A",
   "Ƌ", "U+018B", "ƌ", "U+018C", "ƍ", "U+018D", "Ǝ", "U+018E", "Ə", "U+018F",
   "Ɛ", "U+0190", "Ƒ", "U+0191", "ƒ", "U+0192", "Ɠ", "U+0193", "Ɣ", "U+0194",
   "ƕ", "U+0195", "Ɩ", "U+0196", "Ɨ", "U+0197", "Ƙ", "U+0198", "ƙ", "U+0199",
   "ƚ", "U+019A", "ƛ", "U+019B", "Ɯ", "U+019C", "Ɲ", "U+019D", "ƞ", "U+019E",
   "Ɵ", "U+019F", "Ơ", "U+01A0", "ơ", "U+01A1", "Ƣ", "U+01A2", "ƣ", "U+01A3",
   "Ƥ", "U+01A4", "ƥ", "U+01A5", "Ʀ", "U+01A6", "Ƨ", "U+01A7", "ƨ", "U+01A8",
   "Ʃ", "U+01A9", "ƪ", "U+01AA", "ƫ", "U+01AB", "Ƭ", "U+01AC", "ƭ", "U+01AD",
   "Ʈ", "U+01AE", "Ư", "U+01AF", "ư", "U+01B0", "Ʊ", "U+01B1", "Ʋ", "U+01B2",
   "Ƴ", "U+01B3", "ƴ", "U+01B4", "Ƶ", "U+01B5", "ƶ", "U+01B6", "Ʒ", "U+01B7",
   "Ƹ", "U+01B8", "ƹ", "U+01B9", "ƺ", "U+01BA", "Ƽ", "U+01BC", "ƽ", "U+01BD",
   "ƾ", "U+01BE", "ƿ", "U+01BF", "Ǆ", "U+01C4", "ǅ", "U+01C5", "ǆ", "U+01C6",
   "Ǉ", "U+01C7", "ǈ", "U+01C8", "ǉ", "U+01C9", "Ǌ", "U+01CA", "ǋ", "U+01CB",
   "ǌ", "U+01CC", "Ǎ", "U+01CD", "ǎ", "U+01CE", "Ǐ", "U+01CF", "ǐ", "U+01D0",
   "Ǒ", "U+01D1", "ǒ", "U+01D2", "Ǔ", "U+01D3", "ǔ", "U+01D4", "Ǖ", "U+01D5",
   "ǖ", "U+01D6", "Ǘ", "U+01D7", "ǘ", "U+01D8", "Ǚ", "U+01D9", "ǚ", "U+01DA",
   "Ǜ", "U+01DB", "ǜ", "U+01DC", "ǝ", "U+01DD", "Ǟ", "U+01DE", "ǟ", "U+01DF",
   "Ǡ", "U+01E0", "ǡ", "U+01E1", "Ǣ", "U+01E2", "ǣ", "U+01E3", "Ǥ", "U+01E4",
   "ǥ", "U+01E5", "Ǧ", "U+01E6", "ǧ", "U+01E7", "Ǩ", "U+01E8", "ǩ", "U+01E9",
   "Ǫ", "U+01EA", "ǫ", "U+01EB", "Ǭ", "U+01EC", "ǭ", "U+01ED", "Ǯ", "U+01EE",
   "ǯ", "U+01EF", "ǰ", "U+01F0", "Ǳ", "U+01F1", "ǲ", "U+01F2", "ǳ", "U+01F3",
   "Ǵ", "U+01F4", "ǵ", "U+01F5", "Ƕ", "U+01F6", "Ƿ", "U+01F7", "Ǹ", "U+01F8",
   "ǹ", "U+01F9", "Ǻ", "U+01FA", "ǻ", "U+01FB", "Ǽ", "U+01FC", "ǽ", "U+01FD",
   "Ǿ", "U+01FE", "ǿ", "U+01FF", "U+0200", "U+0201", "U+0202", "U+0203",
   "U+0204", "U+0205", "U+0206", "U+0207", "U+0208", "U+0209", "U+020A",
   "U+020B", "U+020C", "U+020D", "U+020E", "U+020F", "U+0210", "U+0211",
   "U+0212", "U+0213", "U+0214", "U+0215", "U+0216", "U+0217", "U+0218",
   "U+0219", "U+021A", "U+021B", "U+021C", "U+021D", "U+021E", "U+021F",
   "U+0220", "U+0221", "U+0222", "U+0223", "U+0224", "U+0225", "U+0226",
   "U+0227", "U+0228", "U+0229", "U+022A", "U+022B", "U+022C", "U+022D",
   "U+022E", "U+022F", "U+0230", "U+0231", "U+0232", "U+0233", "U+0234",
   "U+0235", "U+0236", "U+0237", "U+0238", "U+0239", "U+023A", "U+023B",
   "U+023C", "U+023D", "U+023E", "U+023F", "U+0240", "U+0241", "U+0242",
   "U+0243", "U+0244", "U+0245", "U+0246", "U+0247", "U+0248", "U+0249",
   "U+024A", "U+024B", "U+024C", "U+024D", "U+024E", "U+024F", "U+0250",
   "U+0251", "U+0252", "U+0253", "U+0254", "U+0255", "U+0256", "U+0257",
   "U+0258", "U+0259", "U+025A", "U+025B", "U+025C", "U+025D", "U+025E",
   "U+025F", "U+0260", "U+0261", "U+0262", "U+0263", "U+0264", "U+0265",
   "U+0266", "U+0267", "U+0268", "U+0269", "U+026A", "U+026B", "U+026C",
   "U+026D", "U+026E", "U+026F", "U+0270", "U+0271", "U+0272", "U+0273",
   "U+0274", "U+0275", "U+0276", "U+0277", "U+0278", "U+0279", "U+027A",
   "U+027B", "U+027C", "U+027D", "U+027E", "U+027F", "ʀ", "U+0280", "ʁ",
   "U+0281", "ʂ", "U+0282", "ʃ", "U+0283", "ʄ", "U+0284", "ʅ", "U+0285", "ʆ",
   "U+0286", "ʇ", "U+0287", "ʈ", "U+0288", "ʉ", "U+0289", "ʊ", "U+028A", "ʋ",
   "U+028B", "ʌ", "U+028C", "ʍ", "U+028D", "ʎ", "U+028E", "ʏ", "U+028F", "ʐ",
   "U+0290", "ʑ", "U+0291", "ʒ", "U+0292", "ʓ", "U+0293", "ʕ", "U+0295", "ʖ",
   "U+0296", "ʗ", "U+0297", "ʘ", "U+0298", "ʙ", "U+0299", "ʚ", "U+029A", "ʛ",
   "U+029B", "ʜ", "U+029C", "ʝ", "U+029D", "ʞ", "U+029E", "ʟ", "U+029F", "ʠ",
   "U+02A0", "ʡ", "U+02A1", "ʢ", "U+02A2", "ʣ", "U+02A3", "ʤ", "U+02A4", "ʥ",
   "U+02A5", "ʦ", "U+02A6", "ʧ", "U+02A7", "ʨ", "U+02A8", "ʩ", "U+02A9", "ʪ",
   "U+02AA", "ʫ", "U+02AB", "ʬ", "U+02AC", "ʭ", "U+02AD", "ʮ", "U+02AE", "ʯ",
   "U+02AF", "ʰ", "U+02B0", "ʱ", "U+02B1", "ʲ", "U+02B2", "ʳ", "U+02B3", "ʴ",
   "U+02B4", "ʵ", "U+02B5", "ʶ", "U+02B6", "ʷ", "U+02B7", "ʸ", "U+02B8", "ˀ",
   "U+02C0", "ˁ", "U+02C1", "ˠ", "U+02E0", "ˡ", "U+02E1", "ˢ", "U+02E2", "ˣ",
   "U+02E3", "ˤ", "U+02E4", "U+0345", "U+0370", "U+0371", "U+0372", "U+0373",
   "U+0376", "U+0377", "U+037A", "U+037B", "U+037C", "U+037D", "U+037F", "Ά",
   "U+0386", "Έ", "U+0388", "Ή", "U+0389", "Ί", "U+038A", "Ό", "U+038C", "Ύ",
   "U+038E", "Ώ", "U+038F", "ΐ", "U+0390", "Α", "U+0391", "Β", "U+0392", "Γ",
   "U+0393", "Δ", "U+0394", "Ε", "U+0395", "Ζ", "U+0396", "Η", "U+0397", "Θ",
   "U+0398", "Ι", "U+0399", "Κ", "U+039A", "Λ", "U+039B", "Μ", "U+039C", "Ν",
   "U+039D", "Ξ", "U+039E", "Ο", "U+039F", "Π", "U+03A0", "Ρ", "U+03A1", "Σ",
   "U+03A3", "Τ", "U+03A4", "Υ", "U+03A5", "Φ", "U+03A6", "Χ", "U+03A7", "Ψ",
   "U+03A8", "Ω", "U+03A9", "Ϊ", "U+03AA", "Ϋ", "U+03AB", "ά", "U+03AC", "έ",
   "U+03AD", "ή", "U+03AE", "ί", "U+03AF", "ΰ", "U+03B0", "α", "U+03B1", "β",
   "U+03B2", "γ", "U+03B3", "δ", "U+03B4", "ε", "U+03B5", "ζ", "U+03B6", "η",
   "U+03B7", "θ", "U+03B8", "ι", "U+03B9", "κ", "U+03BA", "λ", "U+03BB", "μ",
   "U+03BC", "ν", "U+03BD", "ξ", "U+03BE", "ο", "U+03BF", "π", "U+03C0", "ρ",
   "U+03C1", "ς", "U+03C2", "σ", "U+03C3", "τ", "U+03C4", "υ", "U+03C5", "φ",
   "U+03C6", "χ", "U+03C7", "ψ", "U+03C8", "ω", "U+03C9", "ϊ", "U+03CA", "ϋ",
   "U+03CB", "ό", "U+03CC", "ύ", "U+03CD", "ώ", "U+03CE", "Ϗ", "U+03CF", "ϐ",
   "U+03D0", "ϑ", "U+03D1", "ϒ", "U+03D2", "ϓ", "U+03D3", "ϔ", "U+03D4", "ϕ",
   "U+03D5", "ϖ", "U+03D6", "ϗ", "U+03D7", "Ϙ", "U+03D8", "ϙ", "U+03D9", "Ϛ",
   "U+03DA", "ϛ", "U+03DB", "Ϝ", "U+03DC", "ϝ", "U+03DD", "Ϟ", "U+03DE", "ϟ",
   "U+03DF", "Ϡ", "U+03E0", "ϡ", "U+03E1", "Ϣ", "U+03E2", "ϣ", "U+03E3", "Ϥ",
   "U+03E4", "ϥ", "U+03E5", "Ϧ", "U+03E6", "ϧ", "U+03E7", "Ϩ", "U+03E8", "ϩ",
   "U+03E9", "Ϫ", "U+03EA", "ϫ", "U+03EB", "Ϭ", "U+03EC", "ϭ", "U+03ED", "Ϯ",
   "U+03EE", "ϯ", "U+03EF", "ϰ", "U+03F0", "ϱ", "U+03F1", "ϲ", "U+03F2", "ϳ",
   "U+03F3", "ϴ", "U+03F4", "ϵ", "U+03F5", "Ϸ", "U+03F7", "ϸ", "U+03F8", "Ϲ",
   "U+03F9", "Ϻ", "U+03FA", "ϻ", "U+03FB", "ϼ", "U+03FC", "Ͻ", "U+03FD", "Ͼ",
   "U+03FE", "Ͽ", "U+03FF", "U+0400", "U+0401", "U+0402", "U+0403", "U+0404",
   "U+0405", "U+0406", "U+0407", "U+0408", "U+0409", "U+040A", "U+040B",
   "U+040C", "U+040D", "U+040E", "U+040F", "U+0410", "U+0411", "U+0412",
   "U+0413", "U+0414", "U+0415", "U+0416", "U+0417", "U+0418", "U+0419",
   "U+041A", "U+041B", "U+041C", "U+041D", "U+041E", "U+041F", "U+0420",
   "U+0421", "U+0422", "U+0423", "U+0424", "U+0425", "U+0426", "U+0427",
   "U+0428", "U+0429", "U+042A", "U+042B", "U+042C", "U+042D", "U+042E",
   "U+042F", "U+0430", "U+0431", "U+0432", "U+0433", "U+0434", "U+0435",
   "U+0436", "U+0437", "U+0438", "U+0439", "U+043A", "U+043B", "U+043C",
   "U+043D", "U+043E", "U+043F", "U+0440", "U+0441", "U+0442", "U+0443",
   "U+0444", "U+0445", "U+0446", "U+0447", "U+0448", "U+0449", "U+044A",
   "U+044B", "U+044C", "U+044D", "U+044E", "U+044F", "U+0450", "U+0451",
   "U+0452", "U+0453", "U+0454", "U+0455", "U+0456", "U+0457", "U+0458",
   "U+0459", "U+045A", "U+045B", "U+045C", "U+045D", "U+045E", "U+045F",
   "U+0460", "U+0461", "U+0462", "U+0463", "U+0464", "U+0465", "U+0466",
   "U+0467", "U+0468", "U+0469", "U+046A", "U+046B", "U+046C", "U+046D",
   "U+046E", "U+046F", "U+0470", "U+0471", "U+0472", "U+0473", "U+0474",
   "U+0475", "U+0476", "U+0477", "U+0478", "U+0479", "U+047A", "U+047B",
   "U+047C", "U+047D", "U+047E", "U+047F", "Ҁ", "U+0480", "ҁ", "U+0481", "Ҋ",
   "U+048A", "ҋ", "U+048B", "Ҍ", "U+048C", "ҍ", "U+048D", "Ҏ", "U+048E", "ҏ",
   "U+048F", "Ґ", "U+0490", "ґ", "U+0491", "Ғ", "U+0492", "ғ", "U+0493", "Ҕ",
   "U+0494", "ҕ", "U+0495", "Җ", "U+0496", "җ", "U+0497", "Ҙ", "U+0498", "ҙ",
   "U+0499", "Қ", "U+049A", "қ", "U+049B", "Ҝ", "U+049C", "ҝ", "U+049D", "Ҟ",
   "U+049E", "ҟ", "U+049F", "Ҡ", "U+04A0", "ҡ", "U+04A1", "Ң", "U+04A2", "ң",
   "U+04A3", "Ҥ", "U+04A4", "ҥ", "U+04A5", "Ҧ", "U+04A6", "ҧ", "U+04A7", "Ҩ",
   "U+04A8", "ҩ", "U+04A9", "Ҫ", "U+04AA", "ҫ", "U+04AB", "Ҭ", "U+04AC", "ҭ",
   "U+04AD", "Ү", "U+04AE", "ү", "U+04AF", "Ұ", "U+04B0", "ұ", "U+04B1", "Ҳ",
   "U+04B2", "ҳ", "U+04B3", "Ҵ", "U+04B4", "ҵ", "U+04B5", "Ҷ", "U+04B6", "ҷ",
   "U+04B7", "Ҹ", "U+04B8", "ҹ", "U+04B9", "Һ", "U+04BA", "һ", "U+04BB", "Ҽ",
   "U+04BC", "ҽ", "U+04BD", "Ҿ", "U+04BE", "ҿ", "U+04BF", "Ӏ", "U+04C0", "Ӂ",
   "U+04C1", "ӂ", "U+04C2", "Ӄ", "U+04C3", "ӄ", "U+04C4", "Ӆ", "U+04C5", "ӆ",
   "U+04C6", "Ӈ", "U+04C7", "ӈ", "U+04C8", "Ӊ", "U+04C9", "ӊ", "U+04CA", "Ӌ",
   "U+04CB", "ӌ", "U+04CC", "Ӎ", "U+04CD", "ӎ", "U+04CE", "ӏ", "U+04CF", "Ӑ",
   "U+04D0", "ӑ", "U+04D1", "Ӓ", "U+04D2", "ӓ", "U+04D3", "Ӕ", "U+04D4", "ӕ",
   "U+04D5", "Ӗ", "U+04D6", "ӗ", "U+04D7", "Ә", "U+04D8", "ә", "U+04D9", "Ӛ",
   "U+04DA", "ӛ", "U+04DB", "Ӝ", "U+04DC", "ӝ", "U+04DD", "Ӟ", "U+04DE", "ӟ",
   "U+04DF", "Ӡ", "U+04E0", "ӡ", "U+04E1", "Ӣ", "U+04E2", "ӣ", "U+04E3", "Ӥ",
   "U+04E4", "ӥ", "U+04E5", "Ӧ", "U+04E6", "ӧ", "U+04E7", "Ө", "U+04E8", "ө",
   "U+04E9", "Ӫ", "U+04EA", "ӫ", "U+04EB", "Ӭ", "U+04EC", "ӭ", "U+04ED", "Ӯ",
   "U+04EE", "ӯ", "U+04EF", "Ӱ", "U+04F0", "ӱ", "U+04F1", "Ӳ", "U+04F2", "ӳ",
   "U+04F3", "Ӵ", "U+04F4", "ӵ", "U+04F5", "Ӷ", "U+04F6", "ӷ", "U+04F7", "Ӹ",
   "U+04F8", "ӹ", "U+04F9", "Ӻ", "U+04FA", "ӻ", "U+04FB", "Ӽ", "U+04FC", "ӽ",
   "U+04FD", "Ӿ", "U+04FE", "ӿ", "U+04FF", "U+0500", "U+0501", "U+0502",
   "U+0503", "U+0504", "U+0505", "U+0506", "U+0507", "U+0508", "U+0509",
   "U+050A", "U+050B", "U+050C", "U+050D", "U+050E", "U+050F", "U+0510",
   "U+0511", "U+0512", "U+0513", "U+0514", "U+0515", "U+0516", "U+0517",
   "U+0518", "U+0519", "U+051A", "U+051B", "U+051C", "U+051D", "U+051E",
   "U+051F", "U+0520", "U+0521", "U+0522", "U+0523", "U+0524", "U+0525",
   "U+0526", "U+0527", "U+0528", "U+0529", "U+052A", "U+052B", "U+052C",
   "U+052D", "U+052E", "U+052F", "U+0531", "U+0532", "U+0533", "U+0534",
   "U+0535", "U+0536", "U+0537", "U+0538", "U+0539", "U+053A", "U+053B",
   "U+053C", "U+053D", "U+053E", "U+053F", "U+0540", "U+0541", "U+0542",
   "U+0543", "U+0544", "U+0545", "U+0546", "U+0547", "U+0548", "U+0549",
   "U+054A", "U+054B", "U+054C", "U+054D", "U+054E", "U+054F", "U+0550",
   "U+0551", "U+0552", "U+0553", "U+0554", "U+0555", "U+0556", "U+0560",
   "U+0561", "U+0562", "U+0563", "U+0564", "U+0565", "U+0566", "U+0567",
   "U+0568", "U+0569", "U+056A", "U+056B", "U+056C", "U+056D", "U+056E",
   "U+056F", "U+0570", "U+0571", "U+0572", "U+0573", "U+0574", "U+0575",
   "U+0576", "U+0577", "U+0578", "U+0579", "U+057A", "U+057B", "U+057C",
   "U+057D", "U+057E", "U+057F", "ր", "U+0580", "ց", "U+0581", "ւ", "U+0582",
   "փ", "U+0583", "ք", "U+0584", "օ", "U+0585", "ֆ", "U+0586", "և", "U+0587",
   "ֈ", "U+0588", "Ⴀ", "U+10A0", "Ⴁ", "U+10A1", "Ⴂ", "U+10A2", "Ⴃ", "U+10A3",
   "Ⴄ", "U+10A4", "Ⴅ", "U+10A5", "Ⴆ", "U+10A6", "Ⴇ", "U+10A7", "Ⴈ", "U+10A8",
   "Ⴉ", "U+10A9", "Ⴊ", "U+10AA", "Ⴋ", "U+10AB", "Ⴌ", "U+10AC", "Ⴍ", "U+10AD",
   "Ⴎ", "U+10AE", "Ⴏ", "U+10AF", "Ⴐ", "U+10B0", "Ⴑ", "U+10B1", "Ⴒ", "U+10B2",
   "Ⴓ", "U+10B3", "Ⴔ", "U+10B4", "Ⴕ", "U+10B5", "Ⴖ", "U+10B6", "Ⴗ", "U+10B7",
   "Ⴘ", "U+10B8", "Ⴙ", "U+10B9", "Ⴚ", "U+10BA", "Ⴛ", "U+10BB", "Ⴜ", "U+10BC",
   "Ⴝ", "U+10BD", "Ⴞ", "U+10BE", "Ⴟ", "U+10BF", "Ⴠ", "U+10C0", "Ⴡ", "U+10C1",
   "Ⴢ", "U+10C2", "Ⴣ", "U+10C3", "Ⴤ", "U+10C4", "Ⴥ", "U+10C5", "Ⴧ", "U+10C7",
   "Ⴭ", "U+10CD", "ა", "U+10D0", "ბ", "U+10D1", "გ", "U+10D2", "დ", "U+10D3",
   "ე", "U+10D4", "ვ", "U+10D5", "ზ", "U+10D6", "თ", "U+10D7", "ი", "U+10D8",
   "კ", "U+10D9", "ლ", "U+10DA", "მ", "U+10DB", "ნ", "U+10DC", "ო", "U+10DD",
   "პ", "U+10DE", "ჟ", "U+10DF", "რ", "U+10E0", "ს", "U+10E1", "ტ", "U+10E2",
   "უ", "U+10E3", "ფ", "U+10E4", "ქ", "U+10E5", "ღ", "U+10E6", "ყ", "U+10E7",
   "შ", "U+10E8", "ჩ", "U+10E9", "ც", "U+10EA", "ძ", "U+10EB", "წ", "U+10EC",
   "ჭ", "U+10ED", "ხ", "U+10EE", "ჯ", "U+10EF", "ჰ", "U+10F0", "ჱ", "U+10F1",
   "ჲ", "U+10F2", "ჳ", "U+10F3", "ჴ", "U+10F4", "ჵ", "U+10F5", "ჶ", "U+10F6",
   "ჷ", "U+10F7", "ჸ", "U+10F8", "ჹ", "U+10F9", "ჺ", "U+10FA", "ჽ", "U+10FD",
   "ჾ", "U+10FE", "ჿ", "U+10FF", "Ꭰ", "U+13A0", "Ꭱ", "U+13A1", "Ꭲ", "U+13A2",
   "Ꭳ", "U+13A3", "Ꭴ", "U+13A4", "Ꭵ", "U+13A5", "Ꭶ", "U+13A6", "Ꭷ", "U+13A7",
   "Ꭸ", "U+13A8", "Ꭹ", "U+13A9", "Ꭺ", "U+13AA", "Ꭻ", "U+13AB", "Ꭼ", "U+13AC",
   "Ꭽ", "U+13AD", "Ꭾ", "U+13AE", "Ꭿ", "U+13AF", "Ꮀ", "U+13B0", "Ꮁ", "U+13B1",
   "Ꮂ", "U+13B2", "Ꮃ", "U+13B3", "Ꮄ", "U+13B4", "Ꮅ", "U+13B5", "Ꮆ", "U+13B6",
   "Ꮇ", "U+13B7", "Ꮈ", "U+13B8", "Ꮉ", "U+13B9", "Ꮊ", "U+13BA", "Ꮋ", "U+13BB",
   "Ꮌ", "U+13BC", "Ꮍ", "U+13BD", "Ꮎ", "U+13BE", "Ꮏ", "U+13BF", "Ꮐ", "U+13C0",
   "Ꮑ", "U+13C1", "Ꮒ", "U+13C2", "Ꮓ", "U+13C3", "Ꮔ", "U+13C4", "Ꮕ", "U+13C5",
   "Ꮖ", "U+13C6", "Ꮗ", "U+13C7", "Ꮘ", "U+13C8", "Ꮙ", "U+13C9", "Ꮚ", "U+13CA",
   "Ꮛ", "U+13CB", "Ꮜ", "U+13CC", "Ꮝ", "U+13CD", "Ꮞ", "U+13CE", "Ꮟ", "U+13CF",
   "Ꮠ", "U+13D0", "Ꮡ", "U+13D1", "Ꮢ", "U+13D2", "Ꮣ", "U+13D3", "Ꮤ", "U+13D4",
   "Ꮥ", "U+13D5", "Ꮦ", "U+13D6", "Ꮧ", "U+13D7", "Ꮨ", "U+13D8", "Ꮩ", "U+13D9",
   "Ꮪ", "U+13DA", "Ꮫ", "U+13DB", "Ꮬ", "U+13DC", "Ꮭ", "U+13DD", "Ꮮ", "U+13DE",
   "Ꮯ", "U+13DF", "Ꮰ", "U+13E0", "Ꮱ", "U+13E1", "Ꮲ", "U+13E2", "Ꮳ", "U+13E3",
   "Ꮴ", "U+13E4", "Ꮵ", "U+13E5", "Ꮶ", "U+13E6", "Ꮷ", "U+13E7", "Ꮸ", "U+13E8",
   "Ꮹ", "U+13E9", "Ꮺ", "U+13EA", "Ꮻ", "U+13EB", "Ꮼ", "U+13EC", "Ꮽ", "U+13ED",
   "Ꮾ", "U+13EE", "Ꮿ", "U+13EF", "Ᏸ", "U+13F0", "Ᏹ", "U+13F1", "Ᏺ", "U+13F2",
   "Ᏻ", "U+13F3", "Ᏼ", "U+13F4", "Ᏽ", "U+13F5", "ᏸ", "U+13F8", "ᏹ", "U+13F9",
   "ᏺ", "U+13FA", "ᏻ", "U+13FB", "ᏼ", "U+13FC", "ᏽ", "U+13FD", "ᲀ", "U+1C80",
   "ᲁ", "U+1C81", "ᲂ", "U+1C82", "ᲃ", "U+1C83", "ᲄ", "U+1C84", "ᲅ", "U+1C85",
   "ᲆ", "U+1C86", "ᲇ", "U+1C87", "ᲈ", "U+1C88", "Ა", "U+1C90", "Ბ", "U+1C91",
   "Გ", "U+1C92", "Დ", "U+1C93", "Ე", "U+1C94", "Ვ", "U+1C95", "Ზ", "U+1C96",
   "Თ", "U+1C97", "Ი", "U+1C98", "Კ", "U+1C99", "Ლ", "U+1C9A", "Მ", "U+1C9B",
   "Ნ", "U+1C9C", "Ო", "U+1C9D", "Პ", "U+1C9E", "Ჟ", "U+1C9F", "Რ", "U+1CA0",
   "Ს", "U+1CA1", "Ტ", "U+1CA2", "Უ", "U+1CA3", "Ფ", "U+1CA4", "Ქ", "U+1CA5",
   "Ღ", "U+1CA6", "Ყ", "U+1CA7", "Შ", "U+1CA8", "Ჩ", "U+1CA9", "Ც", "U+1CAA",
   "Ძ", "U+1CAB", "Წ", "U+1CAC", "Ჭ", "U+1CAD", "Ხ", "U+1CAE", "Ჯ", "U+1CAF",
   "Ჰ", "U+1CB0", "Ჱ", "U+1CB1", "Ჲ", "U+1CB2", "Ჳ", "U+1CB3", "Ჴ", "U+1CB4",
   "Ჵ", "U+1CB5", "Ჶ", "U+1CB6", "Ჷ", "U+1CB7", "Ჸ", "U+1CB8", "Ჹ", "U+1CB9",
   "Ჺ", "U+1CBA", "Ჽ", "U+1CBD", "Ჾ", "U+1CBE", "Ჿ", "U+1CBF", "U+1D00",
   "U+1D01", "U+1D02", "U+1D03", "U+1D04", "U+1D05", "U+1D06", "U+1D07",
   "U+1D08", "U+1D09", "U+1D0A", "U+1D0B", "U+1D0C", "U+1D0D", "U+1D0E",
   "U+1D0F", "U+1D10", "U+1D11", "U+1D12", "U+1D13", "U+1D14", "U+1D15",
   "U+1D16", "U+1D17", "U+1D18", "U+1D19", "U+1D1A", "U+1D1B", "U+1D1C",
   "U+1D1D", "U+1D1E", "U+1D1F", "U+1D20", "U+1D21", "U+1D22", "U+1D23",
   "U+1D24", "U+1D25", "U+1D26", "U+1D27", "U+1D28", "U+1D29", "U+1D2A",
   "U+1D2B", "U+1D2C", "U+1D2D", "U+1D2E", "U+1D2F", "U+1D30", "U+1D31",
   "U+1D32", "U+1D33", "U+1D34", "U+1D35", "U+1D36", "U+1D37", "U+1D38",
   "U+1D39", "U+1D3A", "U+1D3B", "U+1D3C", "U+1D3D", "U+1D3E", "U+1D3F",
   "U+1D40", "U+1D41", "U+1D42", "U+1D43", "U+1D44", "U+1D45", "U+1D46",
   "U+1D47", "U+1D48", "U+1D49", "U+1D4A", "U+1D4B", "U+1D4C", "U+1D4D",
   "U+1D4E", "U+1D4F", "U+1D50", "U+1D51", "U+1D52", "U+1D53", "U+1D54",
   "U+1D55", "U+1D56", "U+1D57", "U+1D58", "U+1D59", "U+1D5A", "U+1D5B",
   "U+1D5C", "U+1D5D", "U+1D5E", "U+1D5F", "U+1D60", "U+1D61", "U+1D62",
   "U+1D63", "U+1D64", "U+1D65", "U+1D66", "U+1D67", "U+1D68", "U+1D69",
   "U+1D6A", "U+1D6B", "U+1D6C", "U+1D6D", "U+1D6E", "U+1D6F", "U+1D70",
   "U+1D71", "U+1D72", "U+1D73", "U+1D74", "U+1D75", "U+1D76", "U+1D77",
   "U+1D78", "U+1D79", "U+1D7A", "U+1D7B", "U+1D7C", "U+1D7D", "U+1D7E",
   "U+1D7F", "ᶀ", "U+1D80", "ᶁ", "U+1D81", "ᶂ", "U+1D82", "ᶃ", "U+1D83", "ᶄ",
   "U+1D84", "ᶅ", "U+1D85", "ᶆ", "U+1D86", "ᶇ", "U+1D87", "ᶈ", "U+1D88", "ᶉ",
   "U+1D89", "ᶊ", "U+1D8A", "ᶋ", "U+1D8B", "ᶌ", "U+1D8C", "ᶍ", "U+1D8D", "ᶎ",
   "U+1D8E", "ᶏ", "U+1D8F", "ᶐ", "U+1D90", "ᶑ", "U+1D91", "ᶒ", "U+1D92", "ᶓ",
   "U+1D93", "ᶔ", "U+1D94", "ᶕ", "U+1D95", "ᶖ", "U+1D96", "ᶗ", "U+1D97", "ᶘ",
   "U+1D98", "ᶙ", "U+1D99", "ᶚ", "U+1D9A", "ᶛ", "U+1D9B", "ᶜ", "U+1D9C", "ᶝ",
   "U+1D9D", "ᶞ", "U+1D9E", "ᶟ", "U+1D9F", "ᶠ", "U+1DA0", "ᶡ", "U+1DA1", "ᶢ",
   "U+1DA2", "ᶣ", "U+1DA3", "ᶤ", "U+1DA4", "ᶥ", "U+1DA5", "ᶦ", "U+1DA6", "ᶧ",
   "U+1DA7", "ᶨ", "U+1DA8", "ᶩ", "U+1DA9", "ᶪ", "U+1DAA", "ᶫ", "U+1DAB", "ᶬ",
   "U+1DAC", "ᶭ", "U+1DAD", "ᶮ", "U+1DAE", "ᶯ", "U+1DAF", "ᶰ", "U+1DB0", "ᶱ",
   "U+1DB1", "ᶲ", "U+1DB2", "ᶳ", "U+1DB3", "ᶴ", "U+1DB4", "ᶵ", "U+1DB5", "ᶶ",
   "U+1DB6", "ᶷ", "U+1DB7", "ᶸ", "U+1DB8", "ᶹ", "U+1DB9", "ᶺ", "U+1DBA", "ᶻ",
   "U+1DBB", "ᶼ", "U+1DBC", "ᶽ", "U+1DBD", "ᶾ", "U+1DBE", "ᶿ", "U+1DBF",
   "U+1E00", "U+1E01", "U+1E02", "U+1E03", "U+1E04", "U+1E05", "U+1E06",
   "U+1E07", "U+1E08", "U+1E09", "U+1E0A", "U+1E0B", "U+1E0C", "U+1E0D",
   "U+1E0E", "U+1E0F", "U+1E10", "U+1E11", "U+1E12", "U+1E13", "U+1E14",
   "U+1E15", "U+1E16", "U+1E17", "U+1E18", "U+1E19", "U+1E1A", "U+1E1B",
   "U+1E1C", "U+1E1D", "U+1E1E", "U+1E1F", "U+1E20", "U+1E21", "U+1E22",
   "U+1E23", "U+1E24", "U+1E25", "U+1E26", "U+1E27", "U+1E28", "U+1E29",
   "U+1E2A", "U+1E2B", "U+1E2C", "U+1E2D", "U+1E2E", "U+1E2F", "U+1E30",
   "U+1E31", "U+1E32", "U+1E33", "U+1E34", "U+1E35", "U+1E36", "U+1E37",
   "U+1E38", "U+1E39", "U+1E3A", "U+1E3B", "U+1E3C", "U+1E3D", "U+1E3E",
   "U+1E3F", "U+1E40", "U+1E41", "U+1E42", "U+1E43", "U+1E44", "U+1E45",
   "U+1E46", "U+1E47", "U+1E48", "U+1E49", "U+1E4A", "U+1E4B", "U+1E4C",
   "U+1E4D", "U+1E4E", "U+1E4F", "U+1E50", "U+1E51", "U+1E52", "U+1E53",
   "U+1E54", "U+1E55", "U+1E56", "U+1E57", "U+1E58", "U+1E59", "U+1E5A",
   "U+1E5B", "U+1E5C", "U+1E5D", "U+1E5E", "U+1E5F", "U+1E60", "U+1E61",
   "U+1E62", "U+1E63", "U+1E64", "U+1E65", "U+1E66", "U+1E67", "U+1E68",
   "U+1E69", "U+1E6A", "U+1E6B", "U+1E6C", "U+1E6D", "U+1E6E", "U+1E6F",
   "U+1E70", "U+1E71", "U+1E72", "U+1E73", "U+1E74", "U+1E75", "U+1E76",
   "U+1E77", "U+1E78", "U+1E79", "U+1E7A", "U+1E7B", "U+1E7C", "U+1E7D",
   "U+1E7E", "U+1E7F", "Ẁ", "U+1E80", "ẁ", "U+1E81", "Ẃ", "U+1E82", "ẃ",
   "U+1E83", "Ẅ", "U+1E84", "ẅ", "U+1E85", "Ẇ", "U+1E86", "ẇ", "U+1E87", "Ẉ",
   "U+1E88", "ẉ", "U+1E89", "Ẋ", "U+1E8A", "ẋ", "U+1E8B", "Ẍ", "U+1E8C", "ẍ",
   "U+1E8D", "Ẏ", "U+1E8E", "ẏ", "U+1E8F", "Ẑ", "U+1E90", "ẑ", "U+1E91", "Ẓ",
   "U+1E92", "ẓ", "U+1E93", "Ẕ", "U+1E94", "ẕ", "U+1E95", "ẖ", "U+1E96", "ẗ",
   "U+1E97", "ẘ", "U+1E98", "ẙ", "U+1E99", "ẚ", "U+1E9A", "ẛ", "U+1E9B", "ẜ",
   "U+1E9C", "ẝ", "U+1E9D", "ẞ", "U+1E9E", "ẟ", "U+1E9F", "Ạ", "U+1EA0", "ạ",
   "U+1EA1", "Ả", "U+1EA2", "ả", "U+1EA3", "Ấ", "U+1EA4", "ấ", "U+1EA5", "Ầ",
   "U+1EA6", "ầ", "U+1EA7", "Ẩ", "U+1EA8", "ẩ", "U+1EA9", "Ẫ", "U+1EAA", "ẫ",
   "U+1EAB", "Ậ", "U+1EAC", "ậ", "U+1EAD", "Ắ", "U+1EAE", "ắ", "U+1EAF", "Ằ",
   "U+1EB0", "ằ", "U+1EB1", "Ẳ", "U+1EB2", "ẳ", "U+1EB3", "Ẵ", "U+1EB4", "ẵ",
   "U+1EB5", "Ặ", "U+1EB6", "ặ", "U+1EB7", "Ẹ", "U+1EB8", "ẹ", "U+1EB9", "Ẻ",
   "U+1EBA", "ẻ", "U+1EBB", "Ẽ", "U+1EBC", "ẽ", "U+1EBD", "Ế", "U+1EBE", "ế",
   "U+1EBF", "Ề", "U+1EC0", "ề", "U+1EC1", "Ể", "U+1EC2", "ể", "U+1EC3", "Ễ",
   "U+1EC4", "ễ", "U+1EC5", "Ệ", "U+1EC6", "ệ", "U+1EC7", "Ỉ", "U+1EC8", "ỉ",
   "U+1EC9", "Ị", "U+1ECA", "ị", "U+1ECB", "Ọ", "U+1ECC", "ọ", "U+1ECD", "Ỏ",
   "U+1ECE", "ỏ", "U+1ECF", "Ố", "U+1ED0", "ố", "U+1ED1", "Ồ", "U+1ED2", "ồ",
   "U+1ED3", "Ổ", "U+1ED4", "ổ", "U+1ED5", "Ỗ", "U+1ED6", "ỗ", "U+1ED7", "Ộ",
   "U+1ED8", "ộ", "U+1ED9", "Ớ", "U+1EDA", "ớ", "U+1EDB", "Ờ", "U+1EDC", "ờ",
   "U+1EDD", "Ở", "U+1EDE", "ở", "U+1EDF", "Ỡ", "U+1EE0", "ỡ", "U+1EE1", "Ợ",
   "U+1EE2", "ợ", "U+1EE3", "Ụ", "U+1EE4", "ụ", "U+1EE5", "Ủ", "U+1EE6", "ủ",
   "U+1EE7", "Ứ", "U+1EE8", "ứ", "U+1EE9", "Ừ", "U+1EEA", "ừ", "U+1EEB", "Ử",
   "U+1EEC", "ử", "U+1EED", "Ữ", "U+1EEE", "ữ", "U+1EEF", "Ự", "U+1EF0", "ự",
   "U+1EF1", "Ỳ", "U+1EF2", "ỳ", "U+1EF3", "Ỵ", "U+1EF4", "ỵ", "U+1EF5", "Ỷ",
   "U+1EF6", "ỷ", "U+1EF7", "Ỹ", "U+1EF8", "ỹ", "U+1EF9", "Ỻ", "U+1EFA", "ỻ",
   "U+1EFB", "Ỽ", "U+1EFC", "ỽ", "U+1EFD", "Ỿ", "U+1EFE", "ỿ", "U+1EFF",
   "U+1F00", "U+1F01", "U+1F02", "U+1F03", "U+1F04", "U+1F05", "U+1F06",
   "U+1F07", "U+1F08", "U+1F09", "U+1F0A", "U+1F0B", "U+1F0C", "U+1F0D",
   "U+1F0E", "U+1F0F", "U+1F10", "U+1F11", "U+1F12", "U+1F13", "U+1F14",
   "U+1F15", "U+1F18", "U+1F19", "U+1F1A", "U+1F1B", "U+1F1C", "U+1F1D",
   "U+1F20", "U+1F21", "U+1F22", "U+1F23", "U+1F24", "U+1F25", "U+1F26",
   "U+1F27", "U+1F28", "U+1F29", "U+1F2A", "U+1F2B", "U+1F2C", "U+1F2D",
   "U+1F2E", "U+1F2F", "U+1F30", "U+1F31", "U+1F32", "U+1F33", "U+1F34",
   "U+1F35", "U+1F36", "U+1F37", "U+1F38", "U+1F39", "U+1F3A", "U+1F3B",
   "U+1F3C", "U+1F3D", "U+1F3E", "U+1F3F", "U+1F40", "U+1F41", "U+1F42",
   "U+1F43", "U+1F44", "U+1F45", "U+1F48", "U+1F49", "U+1F4A", "U+1F4B",
   "U+1F4C", "U+1F4D", "U+1F50", "U+1F51", "U+1F52", "U+1F53", "U+1F54",
   "U+1F55", "U+1F56", "U+1F57", "U+1F59", "U+1F5B", "U+1F5D", "U+1F5F",
   "U+1F60", "U+1F61", "U+1F62", "U+1F63", "U+1F64", "U+1F65", "U+1F66",
   "U+1F67", "U+1F68", "U+1F69", "U+1F6A", "U+1F6B", "U+1F6C", "U+1F6D",
   "U+1F6E", "U+1F6F", "U+1F70", "U+1F71", "U+1F72", "U+1F73", "U+1F74",
   "U+1F75", "U+1F76", "U+1F77", "U+1F78", "U+1F79", "U+1F7A", "U+1F7B",
   "U+1F7C", "U+1F7D", "ᾀ", "U+1F80", "ᾁ", "U+1F81", "ᾂ", "U+1F82", "ᾃ",
   "U+1F83", "ᾄ", "U+1F84", "ᾅ", "U+1F85", "ᾆ", "U+1F86", "ᾇ", "U+1F87", "ᾈ",
   "U+1F88", "ᾉ", "U+1F89", "ᾊ", "U+1F8A", "ᾋ", "U+1F8B", "ᾌ", "U+1F8C", "ᾍ",
   "U+1F8D", "ᾎ", "U+1F8E", "ᾏ", "U+1F8F", "ᾐ", "U+1F90", "ᾑ", "U+1F91", "ᾒ",
   "U+1F92", "ᾓ", "U+1F93", "ᾔ", "U+1F94", "ᾕ", "U+1F95", "ᾖ", "U+1F96", "ᾗ",
   "U+1F97", "ᾘ", "U+1F98", "ᾙ", "U+1F99", "ᾚ", "U+1F9A", "ᾛ", "U+1F9B", "ᾜ",
   "U+1F9C", "ᾝ", "U+1F9D", "ᾞ", "U+1F9E", "ᾟ", "U+1F9F", "ᾠ", "U+1FA0", "ᾡ",
   "U+1FA1", "ᾢ", "U+1FA2", "ᾣ", "U+1FA3", "ᾤ", "U+1FA4", "ᾥ", "U+1FA5", "ᾦ",
   "U+1FA6", "ᾧ", "U+1FA7", "ᾨ", "U+1FA8", "ᾩ", "U+1FA9", "ᾪ", "U+1FAA", "ᾫ",
   "U+1FAB", "ᾬ", "U+1FAC", "ᾭ", "U+1FAD", "ᾮ", "U+1FAE", "ᾯ", "U+1FAF", "ᾰ",
   "U+1FB0", "ᾱ", "U+1FB1", "ᾲ", "U+1FB2", "ᾳ", "U+1FB3", "ᾴ", "U+1FB4", "ᾶ",
   "U+1FB6", "ᾷ", "U+1FB7", "Ᾰ", "U+1FB8", "Ᾱ", "U+1FB9", "Ὰ", "U+1FBA", "Ά",
   "U+1FBB", "ᾼ", "U+1FBC", "ι", "U+1FBE", "ῂ", "U+1FC2", "ῃ", "U+1FC3", "ῄ",
   "U+1FC4", "ῆ", "U+1FC6", "ῇ", "U+1FC7", "Ὲ", "U+1FC8", "Έ", "U+1FC9", "Ὴ",
   "U+1FCA", "Ή", "U+1FCB", "ῌ", "U+1FCC", "ῐ", "U+1FD0", "ῑ", "U+1FD1", "ῒ",
   "U+1FD2", "ΐ", "U+1FD3", "ῖ", "U+1FD6", "ῗ", "U+1FD7", "Ῐ", "U+1FD8", "Ῑ",
   "U+1FD9", "Ὶ", "U+1FDA", "Ί", "U+1FDB", "ῠ", "U+1FE0", "ῡ", "U+1FE1", "ῢ",
   "U+1FE2", "ΰ", "U+1FE3", "ῤ", "U+1FE4", "ῥ", "U+1FE5", "ῦ", "U+1FE6", "ῧ",
   "U+1FE7", "Ῠ", "U+1FE8", "Ῡ", "U+1FE9", "Ὺ", "U+1FEA", "Ύ", "U+1FEB", "Ῥ",
   "U+1FEC", "ῲ", "U+1FF2", "ῳ", "U+1FF3", "ῴ", "U+1FF4", "ῶ", "U+1FF6", "ῷ",
   "U+1FF7", "Ὸ", "U+1FF8", "Ό", "U+1FF9", "Ὼ", "U+1FFA", "Ώ", "U+1FFB", "ῼ",
   "U+1FFC", "U+2071", "U+207F", "ₐ", "U+2090", "ₑ", "U+2091", "ₒ", "U+2092",
   "ₓ", "U+2093", "ₔ", "U+2094", "ₕ", "U+2095", "ₖ", "U+2096", "ₗ", "U+2097",
   "ₘ", "U+2098", "ₙ", "U+2099", "ₚ", "U+209A", "ₛ", "U+209B", "ₜ", "U+209C",
   "U+2102", "U+2107", "U+210A", "U+210B", "U+210C", "U+210D", "U+210E",
   "U+210F", "U+2110", "U+2111", "U+2112", "U+2113", "U+2115", "U+2119",
   "U+211A", "U+211B", "U+211C", "U+211D", "U+2124", "U+2126", "U+2128",
   "U+212A", "U+212B", "U+212C", "U+212D", "U+212F", "U+2130", "U+2131",
   "U+2132", "U+2133", "U+2134", "U+2139", "U+213C", "U+213D", "U+213E",
   "U+213F", "U+2145", "U+2146", "U+2147", "U+2148", "U+2149", "U+214E",
   "U+2160", "U+2161", "U+2162", "U+2163", "U+2164", "U+2165", "U+2166",
   "U+2167", "U+2168", "U+2169", "U+216A", "U+216B", "U+216C", "U+216D",
   "U+216E", "U+216F", "U+2170", "U+2171", "U+2172", "U+2173", "U+2174",
   "U+2175", "U+2176", "U+2177", "U+2178", "U+2179", "U+217A", "U+217B",
   "U+217C", "U+217D", "U+217E", "U+217F", "Ↄ", "U+2183", "ↄ", "U+2184", "Ⓐ",
   "U+24B6", "Ⓑ", "U+24B7", "Ⓒ", "U+24B8", "Ⓓ", "U+24B9", "Ⓔ", "U+24BA", "Ⓕ",
   "U+24BB", "Ⓖ", "U+24BC", "Ⓗ", "U+24BD", "Ⓘ", "U+24BE", "Ⓙ", "U+24BF", "Ⓚ",
   "U+24C0", "Ⓛ", "U+24C1", "Ⓜ", "U+24C2", "Ⓝ", "U+24C3", "Ⓞ", "U+24C4", "Ⓟ",
   "U+24C5", "Ⓠ", "U+24C6", "Ⓡ", "U+24C7", "Ⓢ", "U+24C8", "Ⓣ", "U+24C9", "Ⓤ",
   "U+24CA", "Ⓥ", "U+24CB", "Ⓦ", "U+24CC", "Ⓧ", "U+24CD", "Ⓨ", "U+24CE", "Ⓩ",
   "U+24CF", "ⓐ", "U+24D0", "ⓑ", "U+24D1", "ⓒ", "U+24D2", "ⓓ", "U+24D3", "ⓔ",
   "U+24D4", "ⓕ", "U+24D5", "ⓖ", "U+24D6", "ⓗ", "U+24D7", "ⓘ", "U+24D8", "ⓙ",
   "U+24D9", "ⓚ", "U+24DA", "ⓛ", "U+24DB", "ⓜ", "U+24DC", "ⓝ", "U+24DD", "ⓞ",
   "U+24DE", "ⓟ", "U+24DF", "ⓠ", "U+24E0", "ⓡ", "U+24E1", "ⓢ", "U+24E2", "ⓣ",
   "U+24E3", "ⓤ", "U+24E4", "ⓥ", "U+24E5", "ⓦ", "U+24E6", "ⓧ", "U+24E7", "ⓨ",
   "U+24E8", "ⓩ", "U+24E9", "U+2C00", "U+2C01", "U+2C02", "U+2C03", "U+2C04",
   "U+2C05", "U+2C06", "U+2C07", "U+2C08", "U+2C09", "U+2C0A", "U+2C0B",
   "U+2C0C", "U+2C0D", "U+2C0E", "U+2C0F", "U+2C10", "U+2C11", "U+2C12",
   "U+2C13", "U+2C14", "U+2C15", "U+2C16", "U+2C17", "U+2C18", "U+2C19",
   "U+2C1A", "U+2C1B", "U+2C1C", "U+2C1D", "U+2C1E", "U+2C1F", "U+2C20",
   "U+2C21", "U+2C22", "U+2C23", "U+2C24", "U+2C25", "U+2C26", "U+2C27",
   "U+2C28", "U+2C29", "U+2C2A", "U+2C2B", "U+2C2C", "U+2C2D", "U+2C2E",
   "U+2C2F", "U+2C30", "U+2C31", "U+2C32", "U+2C33", "U+2C34", "U+2C35",
   "U+2C36", "U+2C37", "U+2C38", "U+2C39", "U+2C3A", "U+2C3B", "U+2C3C",
   "U+2C3D", "U+2C3E", "U+2C3F", "U+2C40", "U+2C41", "U+2C42", "U+2C43",
   "U+2C44", "U+2C45", "U+2C46", "U+2C47", "U+2C48", "U+2C49", "U+2C4A",
   "U+2C4B", "U+2C4C", "U+2C4D", "U+2C4E", "U+2C4F", "U+2C50", "U+2C51",
   "U+2C52", "U+2C53", "U+2C54", "U+2C55", "U+2C56", "U+2C57", "U+2C58",
   "U+2C59", "U+2C5A", "U+2C5B", "U+2C5C", "U+2C5D", "U+2C5E", "U+2C5F",
   "U+2C60", "U+2C61", "U+2C62", "U+2C63", "U+2C64", "U+2C65", "U+2C66",
   "U+2C67", "U+2C68", "U+2C69", "U+2C6A", "U+2C6B", "U+2C6C", "U+2C6D",
   "U+2C6E", "U+2C6F", "U+2C70", "U+2C71", "U+2C72", "U+2C73", "U+2C74",
   "U+2C75", "U+2C76", "U+2C77", "U+2C78", "U+2C79", "U+2C7A", "U+2C7B",
   "U+2C7C", "U+2C7D", "U+2C7E", "U+2C7F", "Ⲁ", "U+2C80", "ⲁ", "U+2C81", "Ⲃ",
   "U+2C82", "ⲃ", "U+2C83", "Ⲅ", "U+2C84", "ⲅ", "U+2C85", "Ⲇ", "U+2C86", "ⲇ",
   "U+2C87", "Ⲉ", "U+2C88", "ⲉ", "U+2C89", "Ⲋ", "U+2C8A", "ⲋ", "U+2C8B", "Ⲍ",
   "U+2C8C", "ⲍ", "U+2C8D", "Ⲏ", "U+2C8E", "ⲏ", "U+2C8F", "Ⲑ", "U+2C90", "ⲑ",
   "U+2C91", "Ⲓ", "U+2C92", "ⲓ", "U+2C93", "Ⲕ", "U+2C94", "ⲕ", "U+2C95", "Ⲗ",
   "U+2C96", "ⲗ", "U+2C97", "Ⲙ", "U+2C98", "ⲙ", "U+2C99", "Ⲛ", "U+2C9A", "ⲛ",
   "U+2C9B", "Ⲝ", "U+2C9C", "ⲝ", "U+2C9D", "Ⲟ", "U+2C9E", "ⲟ", "U+2C9F", "Ⲡ",
   "U+2CA0", "ⲡ", "U+2CA1", "Ⲣ", "U+2CA2", "ⲣ", "U+2CA3", "Ⲥ", "U+2CA4", "ⲥ",
   "U+2CA5", "Ⲧ", "U+2CA6", "ⲧ", "U+2CA7", "Ⲩ", "U+2CA8", "ⲩ", "U+2CA9", "Ⲫ",
   "U+2CAA", "ⲫ", "U+2CAB", "Ⲭ", "U+2CAC", "ⲭ", "U+2CAD", "Ⲯ", "U+2CAE", "ⲯ",
   "U+2CAF", "Ⲱ", "U+2CB0", "ⲱ", "U+2CB1", "Ⲳ", "U+2CB2", "ⲳ", "U+2CB3", "Ⲵ",
   "U+2CB4", "ⲵ", "U+2CB5", "Ⲷ", "U+2CB6", "ⲷ", "U+2CB7", "Ⲹ", "U+2CB8", "ⲹ",
   "U+2CB9", "Ⲻ", "U+2CBA", "ⲻ", "U+2CBB", "Ⲽ", "U+2CBC", "ⲽ", "U+2CBD", "Ⲿ",
   "U+2CBE", "ⲿ", "U+2CBF", "Ⳁ", "U+2CC0", "ⳁ", "U+2CC1", "Ⳃ", "U+2CC2", "ⳃ",
   "U+2CC3", "Ⳅ", "U+2CC4", "ⳅ", "U+2CC5", "Ⳇ", "U+2CC6", "ⳇ", "U+2CC7", "Ⳉ",
   "U+2CC8", "ⳉ", "U+2CC9", "Ⳋ", "U+2CCA", "ⳋ", "U+2CCB", "Ⳍ", "U+2CCC", "ⳍ",
   "U+2CCD", "Ⳏ", "U+2CCE", "ⳏ", "U+2CCF", "Ⳑ", "U+2CD0", "ⳑ", "U+2CD1", "Ⳓ",
   "U+2CD2", "ⳓ", "U+2CD3", "Ⳕ", "U+2CD4", "ⳕ", "U+2CD5", "Ⳗ", "U+2CD6", "ⳗ",
   "U+2CD7", "Ⳙ", "U+2CD8", "ⳙ", "U+2CD9", "Ⳛ", "U+2CDA", "ⳛ", "U+2CDB", "Ⳝ",
   "U+2CDC", "ⳝ", "U+2CDD", "Ⳟ", "U+2CDE", "ⳟ", "U+2CDF", "Ⳡ", "U+2CE0", "ⳡ",
   "U+2CE1", "Ⳣ", "U+2CE2", "ⳣ", "U+2CE3", "ⳤ", "U+2CE4", "Ⳬ", "U+2CEB", "ⳬ",
   "U+2CEC", "Ⳮ", "U+2CED", "ⳮ", "U+2CEE", "Ⳳ", "U+2CF2", "ⳳ", "U+2CF3",
   "U+2D00", "U+2D01", "U+2D02", "U+2D03", "U+2D04", "U+2D05", "U+2D06",
   "U+2D07", "U+2D08", "U+2D09", "U+2D0A", "U+2D0B", "U+2D0C", "U+2D0D",
   "U+2D0E", "U+2D0F", "U+2D10", "U+2D11", "U+2D12", "U+2D13", "U+2D14",
   "U+2D15", "U+2D16", "U+2D17", "U+2D18", "U+2D19", "U+2D1A", "U+2D1B",
   "U+2D1C", "U+2D1D", "U+2D1E", "U+2D1F", "U+2D20", "U+2D21", "U+2D22",
   "U+2D23", "U+2D24", "U+2D25", "U+2D27", "U+2D2D", "U+A640", "U+A641",
   "U+A642", "U+A643", "U+A644", "U+A645", "U+A646", "U+A647", "U+A648",
   "U+A649", "U+A64A", "U+A64B", "U+A64C", "U+A64D", "U+A64E", "U+A64F",
   "U+A650", "U+A651", "U+A652", "U+A653", "U+A654", "U+A655", "U+A656",
   "U+A657", "U+A658", "U+A659", "U+A65A", "U+A65B", "U+A65C", "U+A65D",
   "U+A65E", "U+A65F", "U+A660", "U+A661", "U+A662", "U+A663", "U+A664",
   "U+A665", "U+A666", "U+A667", "U+A668", "U+A669", "U+A66A", "U+A66B",
   "U+A66C", "U+A66D", "Ꚁ", "U+A680", "ꚁ", "U+A681", "Ꚃ", "U+A682", "ꚃ",
   "U+A683", "Ꚅ", "U+A684", "ꚅ", "U+A685", "Ꚇ", "U+A686", "ꚇ", "U+A687", "Ꚉ",
   "U+A688", "ꚉ", "U+A689", "Ꚋ", "U+A68A", "ꚋ", "U+A68B", "Ꚍ", "U+A68C", "ꚍ",
   "U+A68D", "Ꚏ", "U+A68E", "ꚏ", "U+A68F", "Ꚑ", "U+A690", "ꚑ", "U+A691", "Ꚓ",
   "U+A692", "ꚓ", "U+A693", "Ꚕ", "U+A694", "ꚕ", "U+A695", "Ꚗ", "U+A696", "ꚗ",
   "U+A697", "Ꚙ", "U+A698", "ꚙ", "U+A699", "Ꚛ", "U+A69A", "ꚛ", "U+A69B", "ꚜ",
   "U+A69C", "ꚝ", "U+A69D", "U+A722", "U+A723", "U+A724", "U+A725", "U+A726",
   "U+A727", "U+A728", "U+A729", "U+A72A", "U+A72B", "U+A72C", "U+A72D",
   "U+A72E", "U+A72F", "U+A730", "U+A731", "U+A732", "U+A733", "U+A734",
   "U+A735", "U+A736", "U+A737", "U+A738", "U+A739", "U+A73A", "U+A73B",
   "U+A73C", "U+A73D", "U+A73E", "U+A73F", "U+A740", "U+A741", "U+A742",
   "U+A743", "U+A744", "U+A745", "U+A746", "U+A747", "U+A748", "U+A749",
   "U+A74A", "U+A74B", "U+A74C", "U+A74D", "U+A74E", "U+A74F", "U+A750",
   "U+A751", "U+A752", "U+A753", "U+A754", "U+A755", "U+A756", "U+A757",
   "U+A758", "U+A759", "U+A75A", "U+A75B", "U+A75C", "U+A75D", "U+A75E",
   "U+A75F", "U+A760", "U+A761", "U+A762", "U+A763", "U+A764", "U+A765",
   "U+A766", "U+A767", "U+A768", "U+A769", "U+A76A", "U+A76B", "U+A76C",
   "U+A76D", "U+A76E", "U+A76F", "U+A770", "U+A771", "U+A772", "U+A773",
   "U+A774", "U+A775", "U+A776", "U+A777", "U+A778", "U+A779", "U+A77A",
   "U+A77B", "U+A77C", "U+A77D", "U+A77E", "U+A77F", "Ꞁ", "U+A780", "ꞁ",
   "U+A781", "Ꞃ", "U+A782", "ꞃ", "U+A783", "Ꞅ", "U+A784", "ꞅ", "U+A785", "Ꞇ",
   "U+A786", "ꞇ", "U+A787", "Ꞌ", "U+A78B", "ꞌ", "U+A78C", "Ɥ", "U+A78D", "ꞎ",
   "U+A78E", "Ꞑ", "U+A790", "ꞑ", "U+A791", "Ꞓ", "U+A792", "ꞓ", "U+A793", "ꞔ",
   "U+A794", "ꞕ", "U+A795", "Ꞗ", "U+A796", "ꞗ", "U+A797", "Ꞙ", "U+A798", "ꞙ",
   "U+A799", "Ꞛ", "U+A79A", "ꞛ", "U+A79B", "Ꞝ", "U+A79C", "ꞝ", "U+A79D", "Ꞟ",
   "U+A79E", "ꞟ", "U+A79F", "Ꞡ", "U+A7A0", "ꞡ", "U+A7A1", "Ꞣ", "U+A7A2", "ꞣ",
   "U+A7A3", "Ꞥ", "U+A7A4", "ꞥ", "U+A7A5", "Ꞧ", "U+A7A6", "ꞧ", "U+A7A7", "Ꞩ",
   "U+A7A8", "ꞩ", "U+A7A9", "Ɦ", "U+A7AA", "Ɜ", "U+A7AB", "Ɡ", "U+A7AC", "Ɬ",
   "U+A7AD", "Ɪ", "U+A7AE", "ꞯ", "U+A7AF", "Ʞ", "U+A7B0", "Ʇ", "U+A7B1", "Ʝ",
   "U+A7B2", "Ꭓ", "U+A7B3", "Ꞵ", "U+A7B4", "ꞵ", "U+A7B5", "Ꞷ", "U+A7B6", "ꞷ",
   "U+A7B7", "Ꞹ", "U+A7B8", "ꞹ", "U+A7B9", "Ꞻ", "U+A7BA", "ꞻ", "U+A7BB", "Ꞽ",
   "U+A7BC", "ꞽ", "U+A7BD", "Ꞿ", "U+A7BE", "ꞿ", "U+A7BF", "Ꟁ", "U+A7C0", "ꟁ",
   "U+A7C1", "Ꟃ", "U+A7C2", "ꟃ", "U+A7C3", "Ꞔ", "U+A7C4", "Ʂ", "U+A7C5", "Ᶎ",
   "U+A7C6", "Ꟈ", "U+A7C7", "ꟈ", "U+A7C8", "Ꟊ", "U+A7C9", "ꟊ", "U+A7CA", "Ꟑ",
   "U+A7D0", "ꟑ", "U+A7D1", "ꟓ", "U+A7D3", "ꟕ", "U+A7D5", "Ꟗ", "U+A7D6", "ꟗ",
   "U+A7D7", "Ꟙ", "U+A7D8", "ꟙ", "U+A7D9", "Ꟶ", "U+A7F5", "ꟶ", "U+A7F6", "ꟸ",
   "U+A7F8", "ꟹ", "U+A7F9", "ꟺ", "U+A7FA", "U+AB30", "U+AB31", "U+AB32",
   "U+AB33", "U+AB34", "U+AB35", "U+AB36", "U+AB37", "U+AB38", "U+AB39",
   "U+AB3A", "U+AB3B", "U+AB3C", "U+AB3D", "U+AB3E", "U+AB3F", "U+AB40",
   "U+AB41", "U+AB42", "U+AB43", "U+AB44", "U+AB45", "U+AB46", "U+AB47",
   "U+AB48", "U+AB49", "U+AB4A", "U+AB4B", "U+AB4C", "U+AB4D", "U+AB4E",
   "U+AB4F", "U+AB50", "U+AB51", "U+AB52", "U+AB53", "U+AB54", "U+AB55",
   "U+AB56", "U+AB57", "U+AB58", "U+AB59", "U+AB5A", "U+AB5C", "U+AB5D",
   "U+AB5E", "U+AB5F", "U+AB60", "U+AB61", "U+AB62", "U+AB63", "U+AB64",
   "U+AB65", "U+AB66", "U+AB67", "U+AB68", "U+AB70", "U+AB71", "U+AB72",
   "U+AB73", "U+AB74", "U+AB75", "U+AB76", "U+AB77", "U+AB78", "U+AB79",
   "U+AB7A", "U+AB7B", "U+AB7C", "U+AB7D", "U+AB7E", "U+AB7F", "ꮀ", "U+AB80",
   "ꮁ", "U+AB81", "ꮂ", "U+AB82", "ꮃ", "U+AB83", "ꮄ", "U+AB84", "ꮅ", "U+AB85",
   "ꮆ", "U+AB86", "ꮇ", "U+AB87", "ꮈ", "U+AB88", "ꮉ", "U+AB89", "ꮊ", "U+AB8A",
   "ꮋ", "U+AB8B", "ꮌ", "U+AB8C", "ꮍ", "U+AB8D", "ꮎ", "U+AB8E", "ꮏ", "U+AB8F",
   "ꮐ", "U+AB90", "ꮑ", "U+AB91", "ꮒ", "U+AB92", "ꮓ", "U+AB93", "ꮔ", "U+AB94",
   "ꮕ", "U+AB95", "ꮖ", "U+AB96", "ꮗ", "U+AB97", "ꮘ", "U+AB98", "ꮙ", "U+AB99",
   "ꮚ", "U+AB9A", "ꮛ", "U+AB9B", "ꮜ", "U+AB9C", "ꮝ", "U+AB9D", "ꮞ", "U+AB9E",
   "ꮟ", "U+AB9F", "ꮠ", "U+ABA0", "ꮡ", "U+ABA1", "ꮢ", "U+ABA2", "ꮣ", "U+ABA3",
   "ꮤ", "U+ABA4", "ꮥ", "U+ABA5", "ꮦ", "U+ABA6", "ꮧ", "U+ABA7", "ꮨ", "U+ABA8",
   "ꮩ", "U+ABA9", "ꮪ", "U+ABAA", "ꮫ", "U+ABAB", "ꮬ", "U+ABAC", "ꮭ", "U+ABAD",
   "ꮮ", "U+ABAE", "ꮯ", "U+ABAF", "ꮰ", "U+ABB0", "ꮱ", "U+ABB1", "ꮲ", "U+ABB2",
   "ꮳ", "U+ABB3", "ꮴ", "U+ABB4", "ꮵ", "U+ABB5", "ꮶ", "U+ABB6", "ꮷ", "U+ABB7",
   "ꮸ", "U+ABB8", "ꮹ", "U+ABB9", "ꮺ", "U+ABBA", "ꮻ", "U+ABBB", "ꮼ", "U+ABBC",
   "ꮽ", "U+ABBD", "ꮾ", "U+ABBE", "ꮿ", "U+ABBF", "U+FB00", "U+FB01", "U+FB02",
   "U+FB03", "U+FB04", "U+FB05", "U+FB06", "U+FB13", "U+FB14", "U+FB15",
   "U+FB16", "U+FB17", "U+FF21", "U+FF22", "U+FF23", "U+FF24", "U+FF25",
   "U+FF26", "U+FF27", "U+FF28", "U+FF29", "U+FF2A", "U+FF2B", "U+FF2C",
   "U+FF2D", "U+FF2E", "U+FF2F", "U+FF30", "U+FF31", "U+FF32", "U+FF33",
   "U+FF34", "U+FF35", "U+FF36", "U+FF37", "U+FF38", "U+FF39", "U+FF3A",
   "U+FF41", "U+FF42", "U+FF43", "U+FF44", "U+FF45", "U+FF46", "U+FF47",
   "U+FF48", "U+FF49", "U+FF4A", "U+FF4B", "U+FF4C", "U+FF4D", "U+FF4E",
   "U+FF4F", "U+FF50", "U+FF51", "U+FF52", "U+FF53", "U+FF54", "U+FF55",
   "U+FF56", "U+FF57", "U+FF58", "U+FF59", "U+FF5A", "U+10400", "U+10401",
   "U+10402", "U+10403", "U+10404", "U+10405", "U+10406", "U+10407",
   "U+10408", "U+10409", "U+1040A", "U+1040B", "U+1040C", "U+1040D",
   "U+1040E", "U+1040F", "U+10410", "U+10411", "U+10412", "U+10413",
   "U+10414", "U+10415", "U+10416", "U+10417", "U+10418", "U+10419",
   "U+1041A", "U+1041B", "U+1041C", "U+1041D", "U+1041E", "U+1041F",
   "U+10420", "U+10421", "U+10422", "U+10423", "U+10424", "U+10425",
   "U+10426", "U+10427", "U+10428", "U+10429", "U+1042A", "U+1042B",
   "U+1042C", "U+1042D", "U+1042E", "U+1042F", "U+10430", "U+10431",
   "U+10432", "U+10433", "U+10434", "U+10435", "U+10436", "U+10437",
   "U+10438", "U+10439", "U+1043A", "U+1043B", "U+1043C", "U+1043D",
   "U+1043E", "U+1043F", "U+10440", "U+10441", "U+10442", "U+10443",
   "U+10444", "U+10445", "U+10446", "U+10447", "U+10448", "U+10449",
   "U+1044A", "U+1044B", "U+1044C", "U+1044D", "U+1044E", "U+1044F",
   "U+104B0", "U+104B1", "U+104B2", "U+104B3", "U+104B4", "U+104B5",
   "U+104B6", "U+104B7", "U+104B8", "U+104B9", "U+104BA", "U+104BB",
   "U+104BC", "U+104BD", "U+104BE", "U+104BF", "U+104C0", "U+104C1",
   "U+104C2", "U+104C3", "U+104C4", "U+104C5", "U+104C6", "U+104C7",
   "U+104C8", "U+104C9", "U+104CA", "U+104CB", "U+104CC", "U+104CD",
   "U+104CE", "U+104CF", "U+104D0", "U+104D1", "U+104D2", "U+104D3",
   "U+104D8", "U+104D9", "U+104DA", "U+104DB", "U+104DC", "U+104DD",
   "U+104DE", "U+104DF", "U+104E0", "U+104E1", "U+104E2", "U+104E3",
   "U+104E4", "U+104E5", "U+104E6", "U+104E7", "U+104E8", "U+104E9",
   "U+104EA", "U+104EB", "U+104EC", "U+104ED", "U+104EE", "U+104EF",
   "U+104F0", "U+104F1", "U+104F2", "U+104F3", "U+104F4", "U+104F5",
   "U+104F6", "U+104F7", "U+104F8", "U+104F9", "U+104FA", "U+104FB",
   "U+10570", "U+10571", "U+10572", "U+10573", "U+10574", "U+10575",
   "U+10576", "U+10577", "U+10578", "U+10579", "U+1057A", "U+1057C",
   "U+1057D", "U+1057E", "U+1057F", "U+10580", "U+10581", "U+10582",
   "U+10583", "U+10584", "U+10585", "U+10586", "U+10587", "U+10588",
   "U+10589", "U+1058A", "U+1058C", "U+1058D", "U+1058E", "U+1058F",
   "U+10590", "U+10591", "U+10592", "U+10594", "U+10595", "U+10597",
   "U+10598", "U+10599", "U+1059A", "U+1059B", "U+1059C", "U+1059D",
   "U+1059E", "U+1059F", "U+105A0", "U+105A1", "U+105A3", "U+105A4",
   "U+105A5", "U+105A6", "U+105A7", "U+105A8", "U+105A9", "U+105AA",
   "U+105AB", "U+105AC", "U+105AD", "U+105AE", "U+105AF", "U+105B0",
   "U+105B1", "U+105B3", "U+105B4", "U+105B5", "U+105B6", "U+105B7",
   "U+105B8", "U+105B9", "U+105BB", "U+105BC", "U+10780", "U+10783",
   "U+10784", "U+10785", "U+10787", "U+10788", "U+10789", "U+1078A",
   "U+1078B", "U+1078C", "U+1078D", "U+1078E", "U+1078F", "U+10790",
   "U+10791", "U+10792", "U+10793", "U+10794", "U+10795", "U+10796",
   "U+10797", "U+10798", "U+10799", "U+1079A", "U+1079B", "U+1079C",
   "U+1079D", "U+1079E", "U+1079F", "U+107A0", "U+107A1", "U+107A2",
   "U+107A3", "U+107A4", "U+107A5", "U+107A6", "U+107A7", "U+107A8",
   "U+107A9", "U+107AA", "U+107AB", "U+107AC", "U+107AD", "U+107AE",
   "U+107AF", "U+107B0", "U+107B2", "U+107B3", "U+107B4", "U+107B5",
   "U+107B6", "U+107B7", "U+107B8", "U+107B9", "U+107BA", "U+10C80",
   "U+10C81", "U+10C82", "U+10C83", "U+10C84", "U+10C85", "U+10C86",
   "U+10C87", "U+10C88", "U+10C89", "U+10C8A", "U+10C8B", "U+10C8C",
   "U+10C8D", "U+10C8E", "U+10C8F", "U+10C90", "U+10C91", "U+10C92",
   "U+10C93", "U+10C94", "U+10C95", "U+10C96", "U+10C97", "U+10C98",
   "U+10C99", "U+10C9A", "U+10C9B", "U+10C9C", "U+10C9D", "U+10C9E",
   "U+10C9F", "U+10CA0", "U+10CA1", "U+10CA2", "U+10CA3", "U+10CA4",
   "U+10CA5", "U+10CA6", "U+10CA7", "U+10CA8", "U+10CA9", "U+10CAA",
   "U+10CAB", "U+10CAC", "U+10CAD", "U+10CAE", "U+10CAF", "U+10CB0",
   "U+10CB1", "U+10CB2", "U+10CC0", "U+10CC1", "U+10CC2", "U+10CC3",
   "U+10CC4", "U+10CC5", "U+10CC6", "U+10CC7", "U+10CC8", "U+10CC9",
   "U+10CCA", "U+10CCB", "U+10CCC", "U+10CCD", "U+10CCE", "U+10CCF",
   "U+10CD0", "U+10CD1", "U+10CD2", "U+10CD3", "U+10CD4", "U+10CD5",
   "U+10CD6", "U+10CD7", "U+10CD8", "U+10CD9", "U+10CDA", "U+10CDB",
   "U+10CDC", "U+10CDD", "U+10CDE", "U+10CDF", "U+10CE0", "U+10CE1",
   "U+10CE2", "U+10CE3", "U+10CE4", "U+10CE5", "U+10CE6", "U+10CE7",
   "U+10CE8", "U+10CE9", "U+10CEA", "U+10CEB", "U+10CEC", "U+10CED",
   "U+10CEE", "U+10CEF", "U+10CF0", "U+10CF1", "U+10CF2", "U+118A0",
   "U+118A1", "U+118A2", "U+118A3", "U+118A4", "U+118A5", "U+118A6",
   "U+118A7", "U+118A8", "U+118A9", "U+118AA", "U+118AB", "U+118AC",
   "U+118AD", "U+118AE", "U+118AF", "U+118B0", "U+118B1", "U+118B2",
   "U+118B3", "U+118B4", "U+118B5", "U+118B6", "U+118B7", "U+118B8",
   "U+118B9", "U+118BA", "U+118BB", "U+118BC", "U+118BD", "U+118BE",
   "U+118BF", "U+118C0", "U+118C1", "U+118C2", "U+118C3", "U+118C4",
   "U+118C5", "U+118C6", "U+118C7", "U+118C8", "U+118C9", "U+118CA",
   "U+118CB", "U+118CC", "U+118CD", "U+118CE", "U+118CF", "U+118D0",
   "U+118D1", "U+118D2", "U+118D3", "U+118D4", "U+118D5", "U+118D6",
   "U+118D7", "U+118D8", "U+118D9", "U+118DA", "U+118DB", "U+118DC",
   "U+118DD", "U+118DE", "U+118DF", "U+16E40", "U+16E41", "U+16E42",
   "U+16E43", "U+16E44", "U+16E45", "U+16E46", "U+16E47", "U+16E48",
   "U+16E49", "U+16E4A", "U+16E4B", "U+16E4C", "U+16E4D", "U+16E4E",
   "U+16E4F", "U+16E50", "U+16E51", "U+16E52", "U+16E53", "U+16E54",
   "U+16E55", "U+16E56", "U+16E57", "U+16E58", "U+16E59", "U+16E5A",
   "U+16E5B", "U+16E5C", "U+16E5D", "U+16E5E", "U+16E5F", "U+16E60",
   "U+16E61", "U+16E62", "U+16E63", "U+16E64", "U+16E65", "U+16E66",
   "U+16E67", "U+16E68", "U+16E69", "U+16E6A", "U+16E6B", "U+16E6C",
   "U+16E6D", "U+16E6E", "U+16E6F", "U+16E70", "U+16E71", "U+16E72",
   "U+16E73", "U+16E74", "U+16E75", "U+16E76", "U+16E77", "U+16E78",
   "U+16E79", "U+16E7A", "U+16E7B", "U+16E7C", "U+16E7D", "U+16E7E",
   "U+16E7F", "U+1D400", "U+1D401", "U+1D402", "U+1D403", "U+1D404",
   "U+1D405", "U+1D406", "U+1D407", "U+1D408", "U+1D409", "U+1D40A",
   "U+1D40B", "U+1D40C", "U+1D40D", "U+1D40E", "U+1D40F", "U+1D410",
   "U+1D411", "U+1D412", "U+1D413", "U+1D414", "U+1D415", "U+1D416",
   "U+1D417", "U+1D418", "U+1D419", "U+1D41A", "U+1D41B", "U+1D41C",
   "U+1D41D", "U+1D41E", "U+1D41F", "U+1D420", "U+1D421", "U+1D422",
   "U+1D423", "U+1D424", "U+1D425", "U+1D426", "U+1D427", "U+1D428",
   "U+1D429", "U+1D42A", "U+1D42B", "U+1D42C", "U+1D42D", "U+1D42E",
   "U+1D42F", "U+1D430", "U+1D431", "U+1D432", "U+1D433", "U+1D434",
   "U+1D435", "U+1D436", "U+1D437", "U+1D438", "U+1D439", "U+1D43A",
   "U+1D43B", "U+1D43C", "U+1D43D", "U+1D43E", "U+1D43F", "U+1D440",
   "U+1D441", "U+1D442", "U+1D443", "U+1D444", "U+1D445", "U+1D446",
   "U+1D447", "U+1D448", "U+1D449", "U+1D44A", "U+1D44B", "U+1D44C",
   "U+1D44D", "U+1D44E", "U+1D44F", "U+1D450", "U+1D451", "U+1D452",
   "U+1D453", "U+1D454", "U+1D456", "U+1D457", "U+1D458", "U+1D459",
   "U+1D45A", "U+1D45B", "U+1D45C", "U+1D45D", "U+1D45E", "U+1D45F",
   "U+1D460", "U+1D461", "U+1D462", "U+1D463", "U+1D464", "U+1D465",
   "U+1D466", "U+1D467", "U+1D468", "U+1D469", "U+1D46A", "U+1D46B",
   "U+1D46C", "U+1D46D", "U+1D46E", "U+1D46F", "U+1D470", "U+1D471",
   "U+1D472", "U+1D473", "U+1D474", "U+1D475", "U+1D476", "U+1D477",
   "U+1D478", "U+1D479", "U+1D47A", "U+1D47B", "U+1D47C", "U+1D47D",
   "U+1D47E", "U+1D47F", "U+1D480", "U+1D481", "U+1D482", "U+1D483",
   "U+1D484", "U+1D485", "U+1D486", "U+1D487", "U+1D488", "U+1D489",
   "U+1D48A", "U+1D48B", "U+1D48C", "U+1D48D", "U+1D48E", "U+1D48F",
   "U+1D490", "U+1D491", "U+1D492", "U+1D493", "U+1D494", "U+1D495",
   "U+1D496", "U+1D497", "U+1D498", "U+1D499", "U+1D49A", "U+1D49B",
   "U+1D49C", "U+1D49E", "U+1D49F", "U+1D4A2", "U+1D4A5", "U+1D4A6",
   "U+1D4A9", "U+1D4AA", "U+1D4AB", "U+1D4AC", "U+1D4AE", "U+1D4AF",
   "U+1D4B0", "U+1D4B1", "U+1D4B2", "U+1D4B3", "U+1D4B4", "U+1D4B5",
   "U+1D4B6", "U+1D4B7", "U+1D4B8", "U+1D4B9", "U+1D4BB", "U+1D4BD",
   "U+1D4BE", "U+1D4BF", "U+1D4C0", "U+1D4C1", "U+1D4C2", "U+1D4C3",
   "U+1D4C5", "U+1D4C6", "U+1D4C7", "U+1D4C8", "U+1D4C9", "U+1D4CA",
   "U+1D4CB", "U+1D4CC", "U+1D4CD", "U+1D4CE", "U+1D4CF", "U+1D4D0",
   "U+1D4D1", "U+1D4D2", "U+1D4D3", "U+1D4D4", "U+1D4D5", "U+1D4D6",
   "U+1D4D7", "U+1D4D8", "U+1D4D9", "U+1D4DA", "U+1D4DB", "U+1D4DC",
   "U+1D4DD", "U+1D4DE", "U+1D4DF", "U+1D4E0", "U+1D4E1", "U+1D4E2",
   "U+1D4E3", "U+1D4E4", "U+1D4E5", "U+1D4E6", "U+1D4E7", "U+1D4E8",
   "U+1D4E9", "U+1D4EA", "U+1D4EB", "U+1D4EC", "U+1D4ED", "U+1D4EE",
   "U+1D4EF", "U+1D4F0", "U+1D4F1", "U+1D4F2", "U+1D4F3", "U+1D4F4",
   "U+1D4F5", "U+1D4F6", "U+1D4F7", "U+1D4F8", "U+1D4F9", "U+1D4FA",
   "U+1D4FB", "U+1D4FC", "U+1D4FD", "U+1D4FE", "U+1D4FF", "U+1D500",
   "U+1D501", "U+1D502", "U+1D503", "U+1D504", "U+1D505", "U+1D507",
   "U+1D508", "U+1D509", "U+1D50A", "U+1D50D", "U+1D50E", "U+1D50F",
   "U+1D510", "U+1D511", "U+1D512", "U+1D513", "U+1D514", "U+1D516",
   "U+1D517", "U+1D518", "U+1D519", "U+1D51A", "U+1D51B", "U+1D51C",
   "U+1D51E", "U+1D51F", "U+1D520", "U+1D521", "U+1D522", "U+1D523",
   "U+1D524", "U+1D525", "U+1D526", "U+1D527", "U+1D528", "U+1D529",
   "U+1D52A", "U+1D52B", "U+1D52C", "U+1D52D", "U+1D52E", "U+1D52F",
   "U+1D530", "U+1D531", "U+1D532", "U+1D533", "U+1D534", "U+1D535",
   "U+1D536", "U+1D537", "U+1D538", "U+1D539", "U+1D53B", "U+1D53C",
   "U+1D53D", "U+1D53E", "U+1D540", "U+1D541", "U+1D542", "U+1D543",
   "U+1D544", "U+1D546", "U+1D54A", "U+1D54B", "U+1D54C", "U+1D54D",
   "U+1D54E", "U+1D54F", "U+1D550", "U+1D552", "U+1D553", "U+1D554",
   "U+1D555", "U+1D556", "U+1D557", "U+1D558", "U+1D559", "U+1D55A",
   "U+1D55B", "U+1D55C", "U+1D55D", "U+1D55E", "U+1D55F", "U+1D560",
   "U+1D561", "U+1D562", "U+1D563", "U+1D564", "U+1D565", "U+1D566",
   "U+1D567", "U+1D568", "U+1D569", "U+1D56A", "U+1D56B", "U+1D56C",
   "U+1D56D", "U+1D56E", "U+1D56F", "U+1D570", "U+1D571", "U+1D572",
   "U+1D573", "U+1D574", "U+1D575", "U+1D576", "U+1D577", "U+1D578",
   "U+1D579", "U+1D57A", "U+1D57B", "U+1D57C", "U+1D57D", "U+1D57E",
   "U+1D57F", "U+1D580", "U+1D581", "U+1D582", "U+1D583", "U+1D584",
   "U+1D585", "U+1D586", "U+1D587", "U+1D588", "U+1D589", "U+1D58A",
   "U+1D58B", "U+1D58C", "U+1D58D", "U+1D58E", "U+1D58F", "U+1D590",
   "U+1D591", "U+1D592", "U+1D593", "U+1D594", "U+1D595", "U+1D596",
   "U+1D597", "U+1D598", "U+1D599", "U+1D59A", "U+1D59B", "U+1D59C",
   "U+1D59D", "U+1D59E", "U+1D59F", "U+1D5A0", "U+1D5A1", "U+1D5A2",
   "U+1D5A3", "U+1D5A4", "U+1D5A5", "U+1D5A6", "U+1D5A7", "U+1D5A8",
   "U+1D5A9", "U+1D5AA", "U+1D5AB", "U+1D5AC", "U+1D5AD", "U+1D5AE",
   "U+1D5AF", "U+1D5B0", "U+1D5B1", "U+1D5B2", "U+1D5B3", "U+1D5B4",
   "U+1D5B5", "U+1D5B6", "U+1D5B7", "U+1D5B8", "U+1D5B9", "U+1D5BA",
   "U+1D5BB", "U+1D5BC", "U+1D5BD", "U+1D5BE", "U+1D5BF", "U+1D5C0",
   "U+1D5C1", "U+1D5C2", "U+1D5C3", "U+1D5C4", "U+1D5C5", "U+1D5C6",
   "U+1D5C7", "U+1D5C8", "U+1D5C9", "U+1D5CA", "U+1D5CB", "U+1D5CC",
   "U+1D5CD", "U+1D5CE", "U+1D5CF", "U+1D5D0", "U+1D5D1", "U+1D5D2",
   "U+1D5D3", "U+1D5D4", "U+1D5D5", "U+1D5D6", "U+1D5D7", "U+1D5D8",
   "U+1D5D9", "U+1D5DA", "U+1D5DB", "U+1D5DC", "U+1D5DD", "U+1D5DE",
   "U+1D5DF", "U+1D5E0", "U+1D5E1", "U+1D5E2", "U+1D5E3", "U+1D5E4",
   "U+1D5E5", "U+1D5E6", "U+1D5E7", "U+1D5E8", "U+1D5E9", "U+1D5EA",
   "U+1D5EB", "U+1D5EC", "U+1D5ED", "U+1D5EE", "U+1D5EF", "U+1D5F0",
   "U+1D5F1", "U+1D5F2", "U+1D5F3", "U+1D5F4", "U+1D5F5", "U+1D5F6",
   "U+1D5F7", "U+1D5F8", "U+1D5F9", "U+1D5FA", "U+1D5FB", "U+1D5FC",
   "U+1D5FD", "U+1D5FE", "U+1D5FF", "U+1D600", "U+1D601", "U+1D602",
   "U+1D603", "U+1D604", "U+1D605", "U+1D606", "U+1D607", "U+1D608",
   "U+1D609", "U+1D60A", "U+1D60B", "U+1D60C", "U+1D60D", "U+1D60E",
   "U+1D60F", "U+1D610", "U+1D611", "U+1D612", "U+1D613", "U+1D614",
   "U+1D615", "U+1D616", "U+1D617", "U+1D618", "U+1D619", "U+1D61A",
   "U+1D61B", "U+1D61C", "U+1D61D", "U+1D61E", "U+1D61F", "U+1D620",
   "U+1D621", "U+1D622", "U+1D623", "U+1D624", "U+1D625", "U+1D626",
   "U+1D627", "U+1D628", "U+1D629", "U+1D62A", "U+1D62B", "U+1D62C",
   "U+1D62D", "U+1D62E", "U+1D62F", "U+1D630", "U+1D631", "U+1D632",
   "U+1D633", "U+1D634", "U+1D635", "U+1D636", "U+1D637", "U+1D638",
   "U+1D639", "U+1D63A", "U+1D63B", "U+1D63C", "U+1D63D", "U+1D63E",
   "U+1D63F", "U+1D640", "U+1D641", "U+1D642", "U+1D643", "U+1D644",
   "U+1D645", "U+1D646", "U+1D647", "U+1D648", "U+1D649", "U+1D64A",
   "U+1D64B", "U+1D64C", "U+1D64D", "U+1D64E", "U+1D64F", "U+1D650",
   "U+1D651", "U+1D652", "U+1D653", "U+1D654", "U+1D655", "U+1D656",
   "U+1D657", "U+1D658", "U+1D659", "U+1D65A", "U+1D65B", "U+1D65C",
   "U+1D65D", "U+1D65E", "U+1D65F", "U+1D660", "U+1D661", "U+1D662",
   "U+1D663", "U+1D664", "U+1D665", "U+1D666", "U+1D667", "U+1D668",
   "U+1D669", "U+1D66A", "U+1D66B", "U+1D66C", "U+1D66D", "U+1D66E",
   "U+1D66F", "U+1D670", "U+1D671", "U+1D672", "U+1D673", "U+1D674",
   "U+1D675", "U+1D676", "U+1D677", "U+1D678", "U+1D679", "U+1D67A",
   "U+1D67B", "U+1D67C", "U+1D67D", "U+1D67E", "U+1D67F", "U+1D680",
   "U+1D681", "U+1D682", "U+1D683", "U+1D684", "U+1D685", "U+1D686",
   "U+1D687", "U+1D688", "U+1D689", "U+1D68A", "U+1D68B", "U+1D68C",
   "U+1D68D", "U+1D68E", "U+1D68F", "U+1D690", "U+1D691", "U+1D692",
   "U+1D693", "U+1D694", "U+1D695", "U+1D696", "U+1D697", "U+1D698",
   "U+1D699", "U+1D69A", "U+1D69B", "U+1D69C", "U+1D69D", "U+1D69E",
   "U+1D69F", "U+1D6A0", "U+1D6A1", "U+1D6A2", "U+1D6A3", "U+1D6A4",
   "U+1D6A5", "U+1D6A8", "U+1D6A9", "U+1D6AA", "U+1D6AB", "U+1D6AC",
   "U+1D6AD", "U+1D6AE", "U+1D6AF", "U+1D6B0", "U+1D6B1", "U+1D6B2",
   "U+1D6B3", "U+1D6B4", "U+1D6B5", "U+1D6B6", "U+1D6B7", "U+1D6B8",
   "U+1D6B9", "U+1D6BA", "U+1D6BB", "U+1D6BC", "U+1D6BD", "U+1D6BE",
   "U+1D6BF", "U+1D6C0", "U+1D6C2", "U+1D6C3", "U+1D6C4", "U+1D6C5",
   "U+1D6C6", "U+1D6C7", "U+1D6C8", "U+1D6C9", "U+1D6CA", "U+1D6CB",
   "U+1D6CC", "U+1D6CD", "U+1D6CE", "U+1D6CF", "U+1D6D0", "U+1D6D1",
   "U+1D6D2", "U+1D6D3", "U+1D6D4", "U+1D6D5", "U+1D6D6", "U+1D6D7",
   "U+1D6D8", "U+1D6D9", "U+1D6DA", "U+1D6DC", "U+1D6DD", "U+1D6DE",
   "U+1D6DF", "U+1D6E0", "U+1D6E1", "U+1D6E2", "U+1D6E3", "U+1D6E4",
   "U+1D6E5", "U+1D6E6", "U+1D6E7", "U+1D6E8", "U+1D6E9", "U+1D6EA",
   "U+1D6EB", "U+1D6EC", "U+1D6ED", "U+1D6EE", "U+1D6EF", "U+1D6F0",
   "U+1D6F1", "U+1D6F2", "U+1D6F3", "U+1D6F4", "U+1D6F5", "U+1D6F6",
   "U+1D6F7", "U+1D6F8", "U+1D6F9", "U+1D6FA", "U+1D6FC", "U+1D6FD",
   "U+1D6FE", "U+1D6FF", "U+1D700", "U+1D701", "U+1D702", "U+1D703",
   "U+1D704", "U+1D705", "U+1D706", "U+1D707", "U+1D708", "U+1D709",
   "U+1D70A", "U+1D70B", "U+1D70C", "U+1D70D", "U+1D70E", "U+1D70F",
   "U+1D710", "U+1D711", "U+1D712", "U+1D713", "U+1D714", "U+1D716",
   "U+1D717", "U+1D718", "U+1D719", "U+1D71A", "U+1D71B", "U+1D71C",
   "U+1D71D", "U+1D71E", "U+1D71F", "U+1D720", "U+1D721", "U+1D722",
   "U+1D723", "U+1D724", "U+1D725", "U+1D726", "U+1D727", "U+1D728",
   "U+1D729", "U+1D72A", "U+1D72B", "U+1D72C", "U+1D72D", "U+1D72E",
   "U+1D72F", "U+1D730", "U+1D731", "U+1D732", "U+1D733", "U+1D734",
   "U+1D736", "U+1D737", "U+1D738", "U+1D739", "U+1D73A", "U+1D73B",
   "U+1D73C", "U+1D73D", "U+1D73E", "U+1D73F", "U+1D740", "U+1D741",
   "U+1D742", "U+1D743", "U+1D744", "U+1D745", "U+1D746", "U+1D747",
   "U+1D748", "U+1D749", "U+1D74A", "U+1D74B", "U+1D74C", "U+1D74D",
   "U+1D74E", "U+1D750", "U+1D751", "U+1D752", "U+1D753", "U+1D754",
   "U+1D755", "U+1D756", "U+1D757", "U+1D758", "U+1D759", "U+1D75A",
   "U+1D75B", "U+1D75C", "U+1D75D", "U+1D75E", "U+1D75F", "U+1D760",
   "U+1D761", "U+1D762", "U+1D763", "U+1D764", "U+1D765", "U+1D766",
   "U+1D767", "U+1D768", "U+1D769", "U+1D76A", "U+1D76B", "U+1D76C",
   "U+1D76D", "U+1D76E", "U+1D770", "U+1D771", "U+1D772", "U+1D773",
   "U+1D774", "U+1D775", "U+1D776", "U+1D777", "U+1D778", "U+1D779",
   "U+1D77A", "U+1D77B", "U+1D77C", "U+1D77D", "U+1D77E", "U+1D77F",
   "U+1D780", "U+1D781", "U+1D782", "U+1D783", "U+1D784", "U+1D785",
   "U+1D786", "U+1D787", "U+1D788", "U+1D78A", "U+1D78B", "U+1D78C",
   "U+1D78D", "U+1D78E", "U+1D78F", "U+1D790", "U+1D791", "U+1D792",
   "U+1D793", "U+1D794", "U+1D795", "U+1D796", "U+1D797", "U+1D798",
   "U+1D799", "U+1D79A", "U+1D79B", "U+1D79C", "U+1D79D", "U+1D79E",
   "U+1D79F", "U+1D7A0", "U+1D7A1", "U+1D7A2", "U+1D7A3", "U+1D7A4",
   "U+1D7A5", "U+1D7A6", "U+1D7A7", "U+1D7A8", "U+1D7AA", "U+1D7AB",
   "U+1D7AC", "U+1D7AD", "U+1D7AE", "U+1D7AF", "U+1D7B0", "U+1D7B1",
   "U+1D7B2", "U+1D7B3", "U+1D7B4", "U+1D7B5", "U+1D7B6", "U+1D7B7",
   "U+1D7B8", "U+1D7B9", "U+1D7BA", "U+1D7BB", "U+1D7BC", "U+1D7BD",
   "U+1D7BE", "U+1D7BF", "U+1D7C0", "U+1D7C1", "U+1D7C2", "U+1D7C4",
   "U+1D7C5", "U+1D7C6", "U+1D7C7", "U+1D7C8", "U+1D7C9", "U+1D7CA",
   "U+1D7CB", "U+1DF00", "U+1DF01", "U+1DF02", "U+1DF03", "U+1DF04",
   "U+1DF05", "U+1DF06", "U+1DF07", "U+1DF08", "U+1DF09", "U+1DF0B",
   "U+1DF0C", "U+1DF0D", "U+1DF0E", "U+1DF0F", "U+1DF10", "U+1DF11",
   "U+1DF12", "U+1DF13", "U+1DF14", "U+1DF15", "U+1DF16", "U+1DF17",
   "U+1DF18", "U+1DF19", "U+1DF1A", "U+1DF1B", "U+1DF1C", "U+1DF1D",
   "U+1DF1E", "U+1E900", "U+1E901", "U+1E902", "U+1E903", "U+1E904",
   "U+1E905", "U+1E906", "U+1E907", "U+1E908", "U+1E909", "U+1E90A",
   "U+1E90B", "U+1E90C", "U+1E90D", "U+1E90E", "U+1E90F", "U+1E910",
   "U+1E911", "U+1E912", "U+1E913", "U+1E914", "U+1E915", "U+1E916",
   "U+1E917", "U+1E918", "U+1E919", "U+1E91A", "U+1E91B", "U+1E91C",
   "U+1E91D", "U+1E91E", "U+1E91F", "U+1E920", "U+1E921", "U+1E922",
   "U+1E923", "U+1E924", "U+1E925", "U+1E926", "U+1E927", "U+1E928",
   "U+1E929", "U+1E92A", "U+1E92B", "U+1E92C", "U+1E92D", "U+1E92E",
   "U+1E92F", "U+1E930", "U+1E931", "U+1E932", "U+1E933", "U+1E934",
   "U+1E935", "U+1E936", "U+1E937", "U+1E938", "U+1E939", "U+1E93A",
   "U+1E93B", "U+1E93C", "U+1E93D", "U+1E93E", "U+1E93F", "U+1E940",
   "U+1E941", "U+1E942", "U+1E943", "U+1F130", "U+1F131", "U+1F132",
   "U+1F133", "U+1F134", "U+1F135", "U+1F136", "U+1F137", "U+1F138",
   "U+1F139", "U+1F13A", "U+1F13B", "U+1F13C", "U+1F13D", "U+1F13E",
   "U+1F13F", "U+1F140", "U+1F141", "U+1F142", "U+1F143", "U+1F144",
   "U+1F145", "U+1F146", "U+1F147", "U+1F148", "U+1F149", "U+1F150",
   "U+1F151", "U+1F152", "U+1F153", "U+1F154", "U+1F155", "U+1F156",
   "U+1F157", "U+1F158", "U+1F159", "U+1F15A", "U+1F15B", "U+1F15C",
   "U+1F15D", "U+1F15E", "U+1F15F", "U+1F160", "U+1F161", "U+1F162",
   "U+1F163", "U+1F164", "U+1F165", "U+1F166", "U+1F167", "U+1F168",
   "U+1F169", "U+1F170", "U+1F171", "U+1F172", "U+1F173", "U+1F174",
   "U+1F175", "U+1F176", "U+1F177", "U+1F178", "U+1F179", "U+1F17A",
   "U+1F17B", "U+1F17C", "U+1F17D", "U+1F17E", "U+1F17F", "U+1F180",
   "U+1F181", "U+1F182", "U+1F183", "U+1F184", "U+1F185", "U+1F186",
   "U+1F187", "U+1F188", "U+1F189"}

\* The case-ignorable characters: str.lower() looks past them when it
\* decides whether a capital sigma ends a word.
CaseIgnorable ==
  {"'", ".", ":", "^", "U+0060", "¨", "U+00A8", "­", "U+00AD", "¯", "U+00AF",
   "´", "U+00B4", "·", "U+00B7", "¸", "U+00B8", "ʰ", "U+02B0", "ʱ", "U+02B1",
   "ʲ", "U+02B2", "ʳ", "U+02B3", "ʴ", "U+02B4", "ʵ", "U+02B5", "ʶ", "U+02B6",
   "ʷ", "U+02B7", "ʸ", "U+02B8", "ʹ", "U+02B9", "ʺ", "U+02BA", "ʻ", "U+02BB",
   "ʼ", "U+02BC", "ʽ", "U+02BD", "ʾ", "U+02BE", "ʿ", "U+02BF", "ˀ", "U+02C0",
   "ˁ", "U+02C1", "˂", "U+02C2", "˃", "U+02C3", "˄", "U+02C4", "˅", "U+02C5",
   "ˆ", "U+02C6", "ˇ", "U+02C7", "ˈ", "U+02C8", "ˉ", "U+02C9", "ˊ", "U+02CA",
   "ˋ", "U+02CB", "ˌ", "U+02CC", "ˍ", "U+02CD", "ˎ", "U+02CE", "ˏ", "U+02CF",
   "ː", "U+02D0", "ˑ", "U+02D1", "˒", "U+02D2", "˓", "U+02D3", "˔", "U+02D4",
   "˕", "U+02D5", "˖", "U+02D6", "˗", "U+02D7", "˘", "U+02D8", "˙", "U+02D9",
   "˚", "U+02DA", "˛", "U+02DB", "˜", "U+02DC", "˝", "U+02DD", "˞", "U+02DE",
   "˟", "U+02DF", "ˠ", "U+02E0", "ˡ", "U+02E1", "ˢ", "U+02E2", "ˣ", "U+02E3",
   "ˤ", "U+02E4", "˥", "U+02E5", "˦", "U+02E6", "˧", "U+02E7", "˨", "U+02E8",
   "˩", "U+02E9", "˪", "U+02EA", "˫", "U+02EB", "ˬ", "U+02EC", "˭", "U+02ED",
   "ˮ", "U+02EE", "˯", "U+02EF", "˰", "U+02F0", "˱", "U+02F1", "˲", "U+02F2",
   "˳", "U+02F3", "˴", "U+02F4", "˵", "U+02F5", "˶", "U+02F6", "˷", "U+02F7",
   "˸", "U+02F8", "˹", "U+02F9", "˺", "U+02FA", "˻", "U+02FB", "˼", "U+02FC",
   "˽", "U+02FD", "˾", "U+02FE", "˿", "U+02FF", "U+0300", "U+0301", "U+0302",
   "U+0303", "U+0304", "U+0305", "U+0306", "U+0307", "U+0308", "U+0309",
   "U+030A", "U+030B", "U+030C", "U+030D", "U+030E", "U+030F", "U+0310",
   "U+0311", "U+0312", "U+0313", "U+0314", "U+0315", "U+0316", "U+0317",
   "U+0318", "U+0319", "U+031A", "U+031B", "U+031C", "U+031D", "U+031E",
   "U+031F", "U+0320", "U+0321", "U+0322", "U+0323", "U+0324", "U+0325",
   "U+0326", "U+0327", "U+0328", "U+0329", "U+032A", "U+032B", "U+032C",
   "U+032D", "U+032E", "U+032F", "U+0330", "U+0331", "U+0332", "U+0333",
   "U+0334", "U+0335", "U+0336", "U+0337", "U+0338", "U+0339", "U+033A",
   "U+033B", "U+033C", "U+033D", "U+033E", "U+033F", "U+0340", "U+0341",
   "U+0342", "U+0343", "U+0344", "U+0345", "U+0346", "U+0347", "U+0348",
   "U+0349", "U+034A", "U+034B", "U+034C", "U+034D", "U+034E", "U+034F",
   "U+0350", "U+0351", "U+0352", "U+0353", "U+0354", "U+0355", "U+0356",
   "U+0357", "U+0358", "U+0359", "U+035A", "U+035B", "U+035C", "U+035D",
   "U+035E", "U+035F", "U+0360", "U+0361", "U+0362", "U+0363", "U+0364",
   "U+0365", "U+0366", "U+0367", "U+0368", "U+0369", "U+036A", "U+036B",
   "U+036C", "U+036D", "U+036E", "U+036F", "U+0374", "U+0375", "U+037A", "΄",
   "U+0384", "΅", "U+0385", "·", "U+0387", "҃", "U+0483", "҄", "U+0484", "҅",
   "U+0485", "҆", "U+0486", "҇", "U+0487", "҈", "U+0488", "҉", "U+0489",
   "U+0559", "U+055F", "֑", "U+0591", "֒", "U+0592", "֓", "U+0593", "֔",
   "U+0594", "֕", "U+0595", "֖", "U+0596", "֗", "U+0597", "֘", "U+0598", "֙",
   "U+0599", "֚", "U+059A", "֛", "U+059B", "֜", "U+059C", "֝", "U+059D", "֞",
   "U+059E", "֟", "U+059F", "֠", "U+05A0", "֡", "U+05A1", "֢", "U+05A2", "֣",
   "U+05A3", "֤", "U+05A4", "֥", "U+05A5", "֦", "U+05A6", "֧", "U+05A7", "֨",
   "U+05A8", "֩", "U+05A9", "֪", "U+05AA", "֫", "U+05AB", "֬", "U+05AC", "֭",
   "U+05AD", "֮", "U+05AE", "֯", "U+05AF", "ְ", "U+05B0", "ֱ", "U+05B1", "ֲ",
   "U+05B2", "ֳ", "U+05B3", "ִ", "U+05B4", "ֵ", "U+05B5", "ֶ", "U+05B6", "ַ",
   "U+05B7", "ָ", "U+05B8", "ֹ", "U+05B9", "ֺ", "U+05BA", "ֻ", "U+05BB", "ּ",
   "U+05BC", "ֽ", "U+05BD", "ֿ", "U+05BF", "ׁ", "U+05C1", "ׂ", "U+05C2", "ׄ",
   "U+05C4", "ׅ", "U+05C5", "ׇ", "U+05C7", "״", "U+05F4", "U+0600", "U+0601",
   "U+0602", "U+0603", "U+0604", "U+0605", "U+0610", "U+0611", "U+0612",
   "U+0613", "U+0614", "U+0615", "U+0616", "U+0617", "U+0618", "U+0619",
   "U+061A", "U+061C", "U+0640", "U+064B", "U+064C", "U+064D", "U+064E",
   "U+064F", "U+0650", "U+0651", "U+0652", "U+0653", "U+0654", "U+0655",
   "U+0656", "U+0657", "U+0658", "U+0659", "U+065A", "U+065B", "U+065C",
   "U+065D", "U+065E", "U+065F", "U+0670", "ۖ", "U+06D6", "ۗ", "U+06D7", "ۘ",
   "U+06D8", "ۙ", "U+06D9", "ۚ", "U+06DA", "ۛ", "U+06DB", "ۜ", "U+06DC", "۝",
   "U+06DD", "۟", "U+06DF", "۠", "U+06E0", "ۡ", "U+06E1", "ۢ", "U+06E2", "ۣ",
   "U+06E3", "ۤ", "U+06E4", "ۥ", "U+06E5", "ۦ", "U+06E6", "ۧ", "U+06E7", "ۨ",
   "U+06E8", "۪", "U+06EA", "۫", "U+06EB", "۬", "U+06EC", "ۭ", "U+06ED",
   "U+070F", "U+0711", "U+0730", "U+0731", "U+0732", "U+0733", "U+0734",
   "U+0735", "U+0736", "U+0737", "U+0738", "U+0739", "U+073A", "U+073B",
   "U+073C", "U+073D", "U+073E", "U+073F", "U+0740", "U+0741", "U+0742",
   "U+0743", "U+0744", "U+0745", "U+0746", "U+0747", "U+0748", "U+0749",
   "U+074A", "ަ", "U+07A6", "ާ", "U+07A7", "ި", "U+07A8", "ީ", "U+07A9", "ު",
   "U+07AA", "ޫ", "U+07AB", "ެ", "U+07AC", "ޭ", "U+07AD", "ޮ", "U+07AE", "ޯ",
   "U+07AF", "ް", "U+07B0", "߫", "U+07EB", "߬", "U+07EC", "߭", "U+07ED", "߮",
   "U+07EE", "߯", "U+07EF", "߰", "U+07F0", "߱", "U+07F1", "߲", "U+07F2", "߳",
   "U+07F3", "ߴ", "U+07F4", "ߵ", "U+07F5", "ߺ", "U+07FA", "߽", "U+07FD",
   "U+0816", "U+0817", "U+0818", "U+0819", "U+081A", "U+081B", "U+081C",
   "U+081D", "U+081E", "U+081F", "U+0820", "U+0821", "U+0822", "U+0823",
   "U+0824", "U+0825", "U+0826", "U+0827", "U+0828", "U+0829", "U+082A",
   "U+082B", "U+082C", "U+082D", "U+0859", "U+085A", "U+085B", "࢈", "U+0888",
   "࢐", "U+0890", "࢑", "U+0891", "࢘", "U+0898", "࢙", "U+0899", "࢚", "U+089A",
   "࢛", "U+089B", "࢜", "U+089C", "࢝", "U+089D", "࢞", "U+089E", "࢟", "U+089F",
   "ࣉ", "U+08C9", "࣊", "U+08CA", "࣋", "U+08CB", "࣌", "U+08CC", "࣍", "U+08CD",
   "࣎", "U+08CE", "࣏", "U+08CF", "࣐", "U+08D0", "࣑", "U+08D1", "࣒", "U+08D2",
   "࣓", "U+08D3", "ࣔ", "U+08D4", "ࣕ", "U+08D5", "ࣖ", "U+08D6", "ࣗ", "U+08D7",
   "ࣘ", "U+08D8", "ࣙ", "U+08D9", "ࣚ", "U+08DA", "ࣛ", "U+08DB", "ࣜ", "U+08DC",
   "ࣝ", "U+08DD", "ࣞ", "U+08DE", "ࣟ", "U+08DF", "࣠", "U+08E0", "࣡", "U+08E1",
   "࣢", "U+08E2", "ࣣ", "U+08E3", "ࣤ", "U+08E4", "ࣥ", "U+08E5", "ࣦ", "U+08E6",
   "ࣧ", "U+08E7", "ࣨ", "U+08E8", "ࣩ", "U+08E9", "࣪", "U+08EA", "࣫", "U+08EB",
   "࣬", "U+08EC", "࣭", "U+08ED", "࣮", "U+08EE", "࣯", "U+08EF", "ࣰ", "U+08F0",
   "ࣱ", "U+08F1", "ࣲ", "U+08F2", "ࣳ", "U+08F3", "ࣴ", "U+08F4", "ࣵ", "U+08F5",
   "ࣶ", "U+08F6", "ࣷ", "U+08F7", "ࣸ", "U+08F8", "ࣹ", "U+08F9", "ࣺ", "U+08FA",
   "ࣻ", "U+08FB", "ࣼ", "U+08FC", "ࣽ", "U+08FD", "ࣾ", "U+08FE", "ࣿ", "U+08FF",
   "U+0900", "U+0901", "U+0902", "U+093A", "U+093C", "U+0941", "U+0942",
   "U+0943", "U+0944", "U+0945", "U+0946", "U+0947", "U+0948", "U+094D",
   "U+0951", "U+0952", "U+0953", "U+0954", "U+0955", "U+0956", "U+0957",
   "U+0962", "U+0963", "U+0971", "ঁ", "U+0981", "়", "U+09BC", "ু", "U+09C1",
   "ূ", "U+09C2", "ৃ", "U+09C3", "ৄ", "U+09C4", "্", "U+09CD", "ৢ", "U+09E2",
   "ৣ", "U+09E3", "৾", "U+09FE", "U+0A01", "U+0A02", "U+0A3C", "U+0A41",
   "U+0A42", "U+0A47", "U+0A48", "U+0A4B", "U+0A4C", "U+0A4D", "U+0A51",
   "U+0A70", "U+0A71", "U+0A75", "ઁ", "U+0A81", "ં", "U+0A82", "઼", "U+0ABC",
   "ુ", "U+0AC1", "ૂ", "U+0AC2", "ૃ", "U+0AC3", "ૄ", "U+0AC4", "ૅ", "U+0AC5",
   "ે", "U+0AC7", "ૈ", "U+0AC8", "્", "U+0ACD", "ૢ", "U+0AE2", "ૣ", "U+0AE3",
   "ૺ", "U+0AFA", "ૻ", "U+0AFB", "ૼ", "U+0AFC", "૽", "U+0AFD", "૾", "U+0AFE",
   "૿", "U+0AFF", "U+0B01", "U+0B3C", "U+0B3F", "U+0B41", "U+0B42", "U+0B43",
   "U+0B44", "U+0B4D", "U+0B55", "U+0B56", "U+0B62", "U+0B63", "ஂ", "U+0B82",
   "ீ", "U+0BC0", "்", "U+0BCD", "U+0C00", "U+0C04", "U+0C3C", "U+0C3E",
   "U+0C3F", "U+0C40", "U+0C46", "U+0C47", "U+0C48", "U+0C4A", "U+0C4B",
   "U+0C4C", "U+0C4D", "U+0C55", "U+0C56", "U+0C62", "U+0C63", "ಁ", "U+0C81",
   "಼", "U+0CBC", "ಿ", "U+0CBF", "ೆ", "U+0CC6", "ೌ", "U+0CCC", "್", "U+0CCD",
   "ೢ", "U+0CE2", "ೣ", "U+0CE3", "U+0D00", "U+0D01", "U+0D3B", "U+0D3C",
   "U+0D41", "U+0D42", "U+0D43", "U+0D44", "U+0D4D", "U+0D62", "U+0D63", "ඁ",
   "U+0D81", "්", "U+0DCA", "ි", "U+0DD2", "ී", "U+0DD3", "ු", "U+0DD4", "ූ",
   "U+0DD6", "U+0E31", "U+0E34", "U+0E35", "U+0E36", "U+0E37", "U+0E38",
   "U+0E39", "U+0E3A", "U+0E46", "U+0E47", "U+0E48", "U+0E49", "U+0E4A",
   "U+0E4B", "U+0E4C", "U+0E4D", "U+0E4E", "ັ", "U+0EB1", "ິ", "U+0EB4", "ີ",
   "U+0EB5", "ຶ", "U+0EB6", "ື", "U+0EB7", "ຸ", "U+0EB8", "ູ", "U+0EB9", "຺",
   "U+0EBA", "ົ", "U+0EBB", "ຼ", "U+0EBC", "ໆ", "U+0EC6", "່", "U+0EC8", "້",
   "U+0EC9", "໊", "U+0ECA", "໋", "U+0ECB", "໌", "U+0ECC", "ໍ", "U+0ECD",
   "U+0F18", "U+0F19", "U+0F35", "U+0F37", "U+0F39", "U+0F71", "U+0F72",
   "U+0F73", "U+0F74", "U+0F75", "U+0F76", "U+0F77", "U+0F78", "U+0F79",
   "U+0F7A", "U+0F7B", "U+0F7C", "U+0F7D", "U+0F7E", "ྀ", "U+0F80", "ཱྀ",
   "U+0F81", "ྂ", "U+0F82", "ྃ", "U+0F83", "྄", "U+0F84", "྆", "U+0F86", "྇",
   "U+0F87", "ྍ", "U+0F8D", "ྎ", "U+0F8E", "ྏ", "U+0F8F", "ྐ", "U+0F90", "ྑ",
   "U+0F91", "ྒ", "U+0F92", "ྒྷ", "U+0F93", "ྔ", "U+0F94", "ྕ", "U+0F95", "ྖ",
   "U+0F96", "ྗ", "U+0F97", "ྙ", "U+0F99", "ྚ", "U+0F9A", "ྛ", "U+0F9B", "ྜ",
   "U+0F9C", "ྜྷ", "U+0F9D", "ྞ", "U+0F9E", "ྟ", "U+0F9F", "ྠ", "U+0FA0", "ྡ",
   "U+0FA1", "ྡྷ", "U+0FA2", "ྣ", "U+0FA3", "ྤ", "U+0FA4", "ྥ", "U+0FA5", "ྦ",
   "U+0FA6", "ྦྷ", "U+0FA7", "ྨ", "U+0FA8", "ྩ", "U+0FA9", "ྪ", "U+0FAA", "ྫ",
   "U+0FAB", "ྫྷ", "U+0FAC", "ྭ", "U+0FAD", "ྮ", "U+0FAE", "ྯ", "U+0FAF", "ྰ",
   "U+0FB0", "ྱ", "U+0FB1", "ྲ", "U+0FB2", "ླ", "U+0FB3", "ྴ", "U+0FB4", "ྵ",
   "U+0FB5", "ྶ", "U+0FB6", "ྷ", "U+0FB7", "ྸ", "U+0FB8", "ྐྵ", "U+0FB9", "ྺ",
   "U+0FBA", "ྻ", "U+0FBB", "ྼ", "U+0FBC", "࿆", "U+0FC6", "U+102D", "U+102E",
   "U+102F", "U+1030", "U+1032", "U+1033", "U+1034", "U+1035", "U+1036",
   "U+1037", "U+1039", "U+103A", "U+103D", "U+103E", "U+1058", "U+1059",
   "U+105E", "U+105F", "U+1060", "U+1071", "U+1072", "U+1073", "U+1074", "ႂ",
   "U+1082", "ႅ", "U+1085", "ႆ", "U+1086", "ႍ", "U+108D", "ႝ", "U+109D", "ჼ",
   "U+10FC", "U+135D", "U+135E", "U+135F", "U+1712", "U+1713", "U+1714",
   "U+1732", "U+1733", "U+1752", "U+1753", "U+1772", "U+1773", "឴", "U+17B4",
   "឵", "U+17B5", "ិ", "U+17B7", "ី", "U+17B8", "ឹ", "U+17B9", "ឺ", "U+17BA",
   "ុ", "U+17BB", "ូ", "U+17BC", "ួ", "U+17BD", "ំ", "U+17C6", "៉", "U+17C9",
   "៊", "U+17CA", "់", "U+17CB", "៌", "U+17CC", "៍", "U+17CD", "៎", "U+17CE",
   "៏", "U+17CF", "័", "U+17D0", "៑", "U+17D1", "្", "U+17D2", "៓", "U+17D3",
   "ៗ", "U+17D7", "៝", "U+17DD", "U+180B", "U+180C", "U+180D", "U+180E",
   "U+180F", "U+1843", "ᢅ", "U+1885", "ᢆ", "U+1886", "ᢩ", "U+18A9", "U+1920",
   "U+1921", "U+1922", "U+1927", "U+1928", "U+1932", "U+1939", "U+193A",
   "U+193B", "U+1A17", "U+1A18", "U+1A1B", "U+1A56", "U+1A58", "U+1A59",
   "U+1A5A", "U+1A5B", "U+1A5C", "U+1A5D", "U+1A5E", "U+1A60", "U+1A62",
   "U+1A65", "U+1A66", "U+1A67", "U+1A68", "U+1A69", "U+1A6A", "U+1A6B",
   "U+1A6C", "U+1A73", "U+1A74", "U+1A75", "U+1A76", "U+1A77", "U+1A78",
   "U+1A79", "U+1A7A", "U+1A7B", "U+1A7C", "U+1A7F", "ᪧ", "U+1AA7", "᪰",
   "U+1AB0", "᪱", "U+1AB1", "᪲", "U+1AB2", "᪳", "U+1AB3", "᪴", "U+1AB4", "᪵",
   "U+1AB5", "᪶", "U+1AB6", "᪷", "U+1AB7", "᪸", "U+1AB8", "᪹", "U+1AB9", "᪺",
   "U+1ABA", "᪻", "U+1ABB", "᪼", "U+1ABC", "᪽", "U+1ABD", "᪾", "U+1ABE", "ᪿ",
   "U+1ABF", "ᫀ", "U+1AC0", "᫁", "U+1AC1", "᫂", "U+1AC2", "᫃", "U+1AC3", "᫄",
   "U+1AC4", "᫅", "U+1AC5", "᫆", "U+1AC6", "᫇", "U+1AC7", "᫈", "U+1AC8", "᫉",
   "U+1AC9", "᫊", "U+1ACA", "᫋", "U+1ACB", "ᫌ", "U+1ACC", "ᫍ", "U+1ACD", "ᫎ",
   "U+1ACE", "U+1B00", "U+1B01", "U+1B02", "U+1B03", "U+1B34", "U+1B36",
   "U+1B37", "U+1B38", "U+1B39", "U+1B3A", "U+1B3C", "U+1B42", "U+1B6B",
   "U+1B6C", "U+1B6D", "U+1B6E", "U+1B6F", "U+1B70", "U+1B71", "U+1B72",
   "U+1B73", "ᮀ", "U+1B80", "ᮁ", "U+1B81", "ᮢ", "U+1BA2", "ᮣ", "U+1BA3", "ᮤ",
   "U+1BA4", "ᮥ", "U+1BA5", "ᮨ", "U+1BA8", "ᮩ", "U+1BA9", "᮫", "U+1BAB", "ᮬ",
   "U+1BAC", "ᮭ", "U+1BAD", "᯦", "U+1BE6", "ᯨ", "U+1BE8", "ᯩ", "U+1BE9", "ᯭ",
   "U+1BED", "ᯯ", "U+1BEF", "ᯰ", "U+1BF0", "ᯱ", "U+1BF1", "U+1C2C", "U+1C2D",
   "U+1C2E", "U+1C2F", "U+1C30", "U+1C31", "U+1C32", "U+1C33", "U+1C36",
   "U+1C37", "U+1C78", "U+1C79", "U+1C7A", "U+1C7B", "U+1C7C", "U+1C7D", "᳐",
   "U+1CD0", "᳑", "U+1CD1", "᳒", "U+1CD2", "᳔", "U+1CD4", "᳕", "U+1CD5", "᳖",
   "U+1CD6", "᳗", "U+1CD7", "᳘", "U+1CD8", "᳙", "U+1CD9", "᳚", "U+1CDA", "᳛",
   "U+1CDB", "᳜", "U+1CDC", "᳝", "U+1CDD", "᳞", "U+1CDE", "᳟", "U+1CDF", "᳠",
   "U+1CE0", "᳢", "U+1CE2", "᳣", "U+1CE3", "᳤", "U+1CE4", "᳥", "U+1CE5", "᳦",
   "U+1CE6", "᳧", "U+1CE7", "᳨", "U+1CE8", "᳭", "U+1CED", "᳴", "U+1CF4", "᳸",
   "U+1CF8", "᳹", "U+1CF9", "U+1D2C", "U+1D2D", "U+1D2E", "U+1D2F", "U+1D30",
   "U+1D31", "U+1D32", "U+1D33", "U+1D34", "U+1D35", "U+1D36", "U+1D37",
   "U+1D38", "U+1D39", "U+1D3A", "U+1D3B", "U+1D3C", "U+1D3D", "U+1D3E",
   "U+1D3F", "U+1D40", "U+1D41", "U+1D42", "U+1D43", "U+1D44", "U+1D45",
   "U+1D46", "U+1D47", "U+1D48", "U+1D49", "U+1D4A", "U+1D4B", "U+1D4C",
   "U+1D4D", "U+1D4E", "U+1D4F", "U+1D50", "U+1D51", "U+1D52", "U+1D53",
   "U+1D54", "U+1D55", "U+1D56", "U+1D57", "U+1D58", "U+1D59", "U+1D5A",
   "U+1D5B", "U+1D5C", "U+1D5D", "U+1D5E", "U+1D5F", "U+1D60", "U+1D61",
   "U+1D62", "U+1D63", "U+1D64", "U+1D65", "U+1D66", "U+1D67", "U+1D68",
   "U+1D69", "U+1D6A", "U+1D78", "ᶛ", "U+1D9B", "ᶜ", "U+1D9C", "ᶝ", "U+1D9D",
   "ᶞ", "U+1D9E", "ᶟ", "U+1D9F", "ᶠ", "U+1DA0", "ᶡ", "U+1DA1", "ᶢ", "U+1DA2",
   "ᶣ", "U+1DA3", "ᶤ", "U+1DA4", "ᶥ", "U+1DA5", "ᶦ", "U+1DA6", "ᶧ", "U+1DA7",
   "ᶨ", "U+1DA8", "ᶩ", "U+1DA9", "ᶪ", "U+1DAA", "ᶫ", "U+1DAB", "ᶬ", "U+1DAC",
   "ᶭ", "U+1DAD", "ᶮ", "U+1DAE", "ᶯ", "U+1DAF", "ᶰ", "U+1DB0", "ᶱ", "U+1DB1",
   "ᶲ", "U+1DB2", "ᶳ", "U+1DB3", "ᶴ", "U+1DB4", "ᶵ", "U+1DB5", "ᶶ", "U+1DB6",
   "ᶷ", "U+1DB7", "ᶸ", "U+1DB8", "ᶹ", "U+1DB9", "ᶺ", "U+1DBA", "ᶻ", "U+1DBB",
   "ᶼ", "U+1DBC", "ᶽ", "U+1DBD", "ᶾ", "U+1DBE", "ᶿ", "U+1DBF", "᷀", "U+1DC0",
   "᷁", "U+1DC1", "᷂", "U+1DC2", "᷃", "U+1DC3", "᷄", "U+1DC4", "᷅", "U+1DC5",
   "᷆", "U+1DC6", "᷇", "U+1DC7", "᷈", "U+1DC8", "᷉", "U+1DC9", "᷊", "U+1DCA",
   "᷋", "U+1DCB", "᷌", "U+1DCC", "᷍", "U+1DCD", "᷎", "U+1DCE", "᷏", "U+1DCF",
   "᷐", "U+1DD0", "᷑", "U+1DD1", "᷒", "U+1DD2", "ᷓ", "U+1DD3", "ᷔ", "U+1DD4",
   "ᷕ", "U+1DD5", "ᷖ", "U+1DD6", "ᷗ", "U+1DD7", "ᷘ", "U+1DD8", "ᷙ", "U+1DD9",
   "ᷚ", "U+1DDA", "ᷛ", "U+1DDB", "ᷜ", "U+1DDC", "ᷝ", "U+1DDD", "ᷞ", "U+1DDE",
   "ᷟ", "U+1DDF", "ᷠ", "U+1DE0", "ᷡ", "U+1DE1", "ᷢ", "U+1DE2", "ᷣ", "U+1DE3",
   "ᷤ", "U+1DE4", "ᷥ", "U+1DE5", "ᷦ", "U+1DE6", "ᷧ", "U+1DE7", "ᷨ", "U+1DE8",
   "ᷩ", "U+1DE9", "ᷪ", "U+1DEA", "ᷫ", "U+1DEB", "ᷬ", "U+1DEC", "ᷭ", "U+1DED",
   "ᷮ", "U+1DEE", "ᷯ", "U+1DEF", "ᷰ", "U+1DF0", "ᷱ", "U+1DF1", "ᷲ", "U+1DF2",
   "ᷳ", "U+1DF3", "ᷴ", "U+1DF4", "᷵", "U+1DF5", "᷶", "U+1DF6", "᷷", "U+1DF7",
   "᷸", "U+1DF8", "᷹", "U+1DF9", "᷺", "U+1DFA", "᷻", "U+1DFB", "᷼", "U+1DFC",
   "᷽", "U+1DFD", "᷾", "U+1DFE", "᷿", "U+1DFF", "᾽", "U+1FBD", "᾿", "U+1FBF",
   "῀", "U+1FC0", "῁", "U+1FC1", "῍", "U+1FCD", "῎", "U+1FCE", "῏", "U+1FCF",
   "῝", "U+1FDD", "῞", "U+1FDE", "῟", "U+1FDF", "῭", "U+1FED", "΅", "U+1FEE",
   "`", "U+1FEF", "´", "U+1FFD", "῾", "U+1FFE", "U+200B", "U+200C", "U+200D",
   "U+200E", "U+200F", "U+2018", "U+2019", "U+2024", "U+2027", "U+202A",
   "U+202B", "U+202C", "U+202D", "U+202E", "U+2060", "U+2061", "U+2062",
   "U+2063", "U+2064", "U+2066", "U+2067", "U+2068", "U+2069", "U+206A",
   "U+206B", "U+206C", "U+206D", "U+206E", "U+206F", "U+2071", "U+207F", "ₐ",
   "U+2090", "ₑ", "U+2091", "ₒ", "U+2092", "ₓ", "U+2093", "ₔ", "U+2094", "ₕ",
   "U+2095", "ₖ", "U+2096", "ₗ", "U+2097", "ₘ", "U+2098", "ₙ", "U+2099", "ₚ",
   "U+209A", "ₛ", "U+209B", "ₜ", "U+209C", "⃐", "U+20D0", "⃑", "U+20D1", "⃒",
   "U+20D2", "⃓", "U+20D3", "⃔", "U+20D4", "⃕", "U+20D5", "⃖", "U+20D6", "⃗",
   "U+20D7", "⃘", "U+20D8", "⃙", "U+20D9", "⃚", "U+20DA", "⃛", "U+20DB", "⃜",
   "U+20DC", "⃝", "U+20DD", "⃞", "U+20DE", "⃟", "U+20DF", "⃠", "U+20E0", "⃡",
   "U+20E1", "⃢", "U+20E2", "⃣", "U+20E3", "⃤", "U+20E4", "⃥", "U+20E5", "⃦",
   "U+20E6", "⃧", "U+20E7", "⃨", "U+20E8", "⃩", "U+20E9", "⃪", "U+20EA", "⃫",
   "U+20EB", "⃬", "U+20EC", "⃭", "U+20ED", "⃮", "U+20EE", "⃯", "U+20EF", "⃰",
   "U+20F0", "U+2C7C", "U+2C7D", "⳯", "U+2CEF", "⳰", "U+2CF0", "⳱", "U+2CF1",
   "U+2D6F", "U+2D7F", "ⷠ", "U+2DE0", "ⷡ", "U+2DE1", "ⷢ", "U+2DE2", "ⷣ",
   "U+2DE3", "ⷤ", "U+2DE4", "ⷥ", "U+2DE5", "ⷦ", "U+2DE6", "ⷧ", "U+2DE7", "ⷨ",
   "U+2DE8", "ⷩ", "U+2DE9", "ⷪ", "U+2DEA", "ⷫ", "U+2DEB", "ⷬ", "U+2DEC", "ⷭ",
   "U+2DED", "ⷮ", "U+2DEE", "ⷯ", "U+2DEF", "ⷰ", "U+2DF0", "ⷱ", "U+2DF1", "ⷲ",
   "U+2DF2", "ⷳ", "U+2DF3", "ⷴ", "U+2DF4", "ⷵ", "U+2DF5", "ⷶ", "U+2DF6", "ⷷ",
   "U+2DF7", "ⷸ", "U+2DF8", "ⷹ", "U+2DF9", "ⷺ", "U+2DFA", "ⷻ", "U+2DFB", "ⷼ",
   "U+2DFC", "ⷽ", "U+2DFD", "ⷾ", "U+2DFE", "ⷿ", "U+2DFF", "U+2E2F", "U+3005",
   "U+302A", "U+302B", "U+302C", "U+302D", "U+3031", "U+3032", "U+3033",
   "U+3034", "U+3035", "U+303B", "゙", "U+3099", "゚", "U+309A", "゛", "U+309B",
   "゜", "U+309C", "ゝ", "U+309D", "ゞ", "U+309E", "ー", "U+30FC", "ヽ", "U+30FD",
   "ヾ", "U+30FE", "U+A015", "ꓸ", "U+A4F8", "ꓹ", "U+A4F9", "ꓺ", "U+A4FA", "ꓻ",
   "U+A4FB", "ꓼ", "U+A4FC", "ꓽ", "U+A4FD", "U+A60C", "U+A66F", "U+A670",
   "U+A671", "U+A672", "U+A674", "U+A675", "U+A676", "U+A677", "U+A678",
   "U+A679", "U+A67A", "U+A67B", "U+A67C", "U+A67D", "U+A67F", "ꚜ", "U+A69C",
   "ꚝ", "U+A69D", "ꚞ", "U+A69E", "ꚟ", "U+A69F", "꛰", "U+A6F0", "꛱", "U+A6F1",
   "U+A700", "U+A701", "U+A702", "U+A703", "U+A704", "U+A705", "U+A706",
   "U+A707", "U+A708", "U+A709", "U+A70A", "U+A70B", "U+A70C", "U+A70D",
   "U+A70E", "U+A70F", "U+A710", "U+A711", "U+A712", "U+A713", "U+A714",
   "U+A715", "U+A716", "U+A717", "U+A718", "U+A719", "U+A71A", "U+A71B",
   "U+A71C", "U+A71D", "U+A71E", "U+A71F", "U+A720", "U+A721", "U+A770", "ꞈ",
   "U+A788", "꞉", "U+A789", "꞊", "U+A78A", "ꟲ", "U+A7F2", "ꟳ", "U+A7F3", "ꟴ",
   "U+A7F4", "ꟸ", "U+A7F8", "ꟹ", "U+A7F9", "U+A802", "U+A806", "U+A80B",
   "U+A825", "U+A826", "U+A82C", "꣄", "U+A8C4", "ꣅ", "U+A8C5", "꣠", "U+A8E0",
   "꣡", "U+A8E1", "꣢", "U+A8E2", "꣣", "U+A8E3", "꣤", "U+A8E4", "꣥", "U+A8E5",
   "꣦", "U+A8E6", "꣧", "U+A8E7", "꣨", "U+A8E8", "꣩", "U+A8E9", "꣪", "U+A8EA",
   "꣫", "U+A8EB", "꣬", "U+A8EC", "꣭", "U+A8ED", "꣮", "U+A8EE", "꣯", "U+A8EF",
   "꣰", "U+A8F0", "꣱", "U+A8F1", "ꣿ", "U+A8FF", "U+A926", "U+A927", "U+A928",
   "U+A929", "U+A92A", "U+A92B", "U+A92C", "U+A92D", "U+A947", "U+A948",
   "U+A949", "U+A94A", "U+A94B", "U+A94C", "U+A94D", "U+A94E", "U+A94F",
   "U+A950", "U+A951", "ꦀ", "U+A980", "ꦁ", "U+A981", "ꦂ", "U+A982", "꦳",
   "U+A9B3", "ꦶ", "U+A9B6", "ꦷ", "U+A9B7", "ꦸ", "U+A9B8", "ꦹ", "U+A9B9", "ꦼ",
   "U+A9BC", "ꦽ", "U+A9BD", "ꧏ", "U+A9CF", "ꧥ", "U+A9E5", "ꧦ", "U+A9E6",
   "U+AA29", "U+AA2A", "U+AA2B", "U+AA2C", "U+AA2D", "U+AA2E", "U+AA31",
   "U+AA32", "U+AA35", "U+AA36", "U+AA43", "U+AA4C", "U+AA70", "U+AA7C", "ꪰ",
   "U+AAB0", "ꪲ", "U+AAB2", "ꪳ", "U+AAB3", "ꪴ", "U+AAB4", "ꪷ", "U+AAB7", "ꪸ",
   "U+AAB8", "ꪾ", "U+AABE", "꪿", "U+AABF", "꫁", "U+AAC1", "ꫝ", "U+AADD", "ꫬ",
   "U+AAEC", "ꫭ", "U+AAED", "ꫳ", "U+AAF3", "ꫴ", "U+AAF4", "꫶", "U+AAF6",
   "U+AB5B", "U+AB5C", "U+AB5D", "U+AB5E", "U+AB5F", "U+AB69", "U+AB6A",
   "U+AB6B", "ꯥ", "U+ABE5", "ꯨ", "U+ABE8", "꯭", "U+ABED", "U+FB1E", "﮲",
   "U+FBB2", "﮳", "U+FBB3", "﮴", "U+FBB4", "﮵", "U+FBB5", "﮶", "U+FBB6", "﮷",
   "U+FBB7", "﮸", "U+FBB8", "﮹", "U+FBB9", "﮺", "U+FBBA", "﮻", "U+FBBB", "﮼",
   "U+FBBC", "﮽", "U+FBBD", "﮾", "U+FBBE", "﮿", "U+FBBF", "﯀", "U+FBC0", "﯁",
   "U+FBC1", "﯂", "U+FBC2", "U+FE00", "U+FE01", "U+FE02", "U+FE03", "U+FE04",
   "U+FE05", "U+FE06", "U+FE07", "U+FE08", "U+FE09", "U+FE0A", "U+FE0B",
   "U+FE0C", "U+FE0D", "U+FE0E", "U+FE0F", "U+FE13", "U+FE20", "U+FE21",
   "U+FE22", "U+FE23", "U+FE24", "U+FE25", "U+FE26", "U+FE27", "U+FE28",
   "U+FE29", "U+FE2A", "U+FE2B", "U+FE2C", "U+FE2D", "U+FE2E", "U+FE2F",
   "U+FE52", "U+FE55", "﻿", "U+FEFF", "U+FF07", "U+FF0E", "U+FF1A", "U+FF3E",
   "U+FF40", "U+FF70", "ﾞ", "U+FF9E", "ﾟ", "U+FF9F", "￣", "U+FFE3", "￹",
   "U+FFF9", "￺", "U+FFFA", "￻", "U+FFFB", "U+101FD", "U+102E0", "U+10376",
   "U+10377", "U+10378", "U+10379", "U+1037A", "U+10780", "U+10781",
   "U+10782", "U+10783", "U+10784", "U+10785", "U+10787", "U+10788",
   "U+10789", "U+1078A", "U+1078B", "U+1078C", "U+1078D", "U+1078E",
   "U+1078F", "U+10790", "U+10791", "U+10792", "U+10793", "U+10794",
   "U+10795", "U+10796", "U+10797", "U+10798", "U+10799", "U+1079A",
   "U+1079B", "U+1079C", "U+1079D", "U+1079E", "U+1079F", "U+107A0",
   "U+107A1", "U+107A2", "U+107A3", "U+107A4", "U+107A5", "U+107A6",
   "U+107A7", "U+107A8", "U+107A9", "U+107AA", "U+107AB", "U+107AC",
   "U+107AD", "U+107AE", "U+107AF", "U+107B0", "U+107B2", "U+107B3",
   "U+107B4", "U+107B5", "U+107B6", "U+107B7", "U+107B8", "U+107B9",
   "U+107BA", "U+10A01", "U+10A02", "U+10A03", "U+10A05", "U+10A06",
   "U+10A0C", "U+10A0D", "U+10A0E", "U+10A0F", "U+10A38", "U+10A39",
   "U+10A3A", "U+10A3F", "U+10AE5", "U+10AE6", "U+10D24", "U+10D25",
   "U+10D26", "U+10D27", "U+10EAB", "U+10EAC", "U+10F46", "U+10F47",
   "U+10F48", "U+10F49", "U+10F4A", "U+10F4B", "U+10F4C", "U+10F4D",
   "U+10F4E", "U+10F4F", "U+10F50", "U+10F82", "U+10F83", "U+10F84",
   "U+10F85", "U+11001", "U+11038", "U+11039", "U+1103A", "U+1103B",
   "U+1103C", "U+1103D", "U+1103E", "U+1103F", "U+11040", "U+11041",
   "U+11042", "U+11043", "U+11044", "U+11045", "U+11046", "U+11070",
   "U+11073", "U+11074", "U+1107F", "U+11080", "U+11081", "U+110B3",
   "U+110B4", "U+110B5", "U+110B6", "U+110B9", "U+110BA", "U+110BD",
   "U+110C2", "U+110CD", "U+11100", "U+11101", "U+11102", "U+11127",
   "U+11128", "U+11129", "U+1112A", "U+1112B", "U+1112D", "U+1112E",
   "U+1112F", "U+11130", "U+11131", "U+11132", "U+11133", "U+11134",
   "U+11173", "U+11180", "U+11181", "U+111B6", "U+111B7", "U+111B8",
   "U+111B9", "U+111BA", "U+111BB", "U+111BC", "U+111BD", "U+111BE",
   "U+111C9", "U+111CA", "U+111CB", "U+111CC", "U+111CF", "U+1122F",
   "U+11230", "U+11231", "U+11234", "U+11236", "U+11237", "U+1123E",
   "U+112DF", "U+112E3", "U+112E4", "U+112E5", "U+112E6", "U+112E7",
   "U+112E8", "U+112E9", "U+112EA", "U+11300", "U+11301", "U+1133B",
   "U+1133C", "U+11340", "U+11366", "U+11367", "U+11368", "U+11369",
   "U+1136A", "U+1136B", "U+1136C", "U+11370", "U+11371", "U+11372",
   "U+11373", "U+11374", "U+11438", "U+11439", "U+1143A", "U+1143B",
   "U+1143C", "U+1143D", "U+1143E", "U+1143F", "U+11442", "U+11443",
   "U+11444", "U+11446", "U+1145E", "U+114B3", "U+114B4", "U+114B5",
   "U+114B6", "U+114B7", "U+114B8", "U+114BA", "U+114BF", "U+114C0",
   "U+114C2", "U+114C3", "U+115B2", "U+115B3", "U+115B4", "U+115B5",
   "U+115BC", "U+115BD", "U+115BF", "U+115C0", "U+115DC", "U+115DD",
   "U+11633", "U+11634", "U+11635", "U+11636", "U+11637", "U+11638",
   "U+11639", "U+1163A", "U+1163D", "U+1163F", "U+11640", "U+116AB",
   "U+116AD", "U+116B0", "U+116B1", "U+116B2", "U+116B3", "U+116B4",
   "U+116B5", "U+116B7", "U+1171D", "U+1171E", "U+1171F", "U+11722",
   "U+11723", "U+11724", "U+11725", "U+11727", "U+11728", "U+11729",
   "U+1172A", "U+1172B", "U+1182F", "U+11830", "U+11831", "U+11832",
   "U+11833", "U+11834", "U+11835", "U+11836", "U+11837", "U+11839",
   "U+1183A", "U+1193B", "U+1193C", "U+1193E", "U+11943", "U+119D4",
   "U+119D5", "U+119D6", "U+119D7", "U+119DA", "U+119DB", "U+119E0",
   "U+11A01", "U+11A02", "U+11A03", "U+11A04", "U+11A05", "U+11A06",
   "U+11A07", "U+11A08", "U+11A09", "U+11A0A", "U+11A33", "U+11A34",
   "U+11A35", "U+11A36", "U+11A37", "U+11A38", "U+11A3B", "U+11A3C",
   "U+11A3D", "U+11A3E", "U+11A47", "U+11A51", "U+11A52", "U+11A53",
   "U+11A54", "U+11A55", "U+11A56", "U+11A59", "U+11A5A", "U+11A5B",
   "U+11A8A", "U+11A8B", "U+11A8C", "U+11A8D", "U+11A8E", "U+11A8F",
   "U+11A90", "U+11A91", "U+11A92", "U+11A93", "U+11A94", "U+11A95",
   "U+11A96", "U+11A98", "U+11A99", "U+11C30", "U+11C31", "U+11C32",
   "U+11C33", "U+11C34", "U+11C35", "U+11C36", "U+11C38", "U+11C39",
   "U+11C3A", "U+11C3B", "U+11C3C", "U+11C3D", "U+11C3F", "U+11C92",
   "U+11C93", "U+11C94", "U+11C95", "U+11C96", "U+11C97", "U+11C98",
   "U+11C99", "U+11C9A", "U+11C9B", "U+11C9C", "U+11C9D", "U+11C9E",
   "U+11C9F", "U+11CA0", "U+11CA1", "U+11CA2", "U+11CA3", "U+11CA4",
   "U+11CA5", "U+11CA6", "U+11CA7", "U+11CAA", "U+11CAB", "U+11CAC",
   "U+11CAD", "U+11CAE", "U+11CAF", "U+11CB0", "U+11CB2", "U+11CB3",
   "U+11CB5", "U+11CB6", "U+11D31", "U+11D32", "U+11D33", "U+11D34",
   "U+11D35", "U+11D36", "U+11D3A", "U+11D3C", "U+11D3D", "U+11D3F",
   "U+11D40", "U+11D41", "U+11D42", "U+11D43", "U+11D44", "U+11D45",
   "U+11D47", "U+11D90", "U+11D91", "U+11D95", "U+11D97", "U+11EF3",
   "U+11EF4", "U+13430", "U+13431", "U+13432", "U+13433", "U+13434",
   "U+13435", "U+13436", "U+13437", "U+13438", "U+16AF0", "U+16AF1",
   "U+16AF2", "U+16AF3", "U+16AF4", "U+16B30", "U+16B31", "U+16B32",
   "U+16B33", "U+16B34", "U+16B35", "U+16B36", "U+16B40", "U+16B41",
   "U+16B42", "U+16B43", "U+16F4F", "U+16F8F", "U+16F90", "U+16F91",
   "U+16F92", "U+16F93", "U+16F94", "U+16F95", "U+16F96", "U+16F97",
   "U+16F98", "U+16F99", "U+16F9A", "U+16F9B", "U+16F9C", "U+16F9D",
   "U+16F9E", "U+16F9F", "U+16FE0", "U+16FE1", "U+16FE3", "U+16FE4",
   "U+1AFF0", "U+1AFF1", "U+1AFF2", "U+1AFF3", "U+1AFF5", "U+1AFF6",
   "U+1AFF7", "U+1AFF8", "U+1AFF9", "U+1AFFA", "U+1AFFB", "U+1AFFD",
   "U+1AFFE", "U+1BC9D", "U+1BC9E", "U+1BCA0", "U+1BCA1", "U+1BCA2",
   "U+1BCA3", "U+1CF00", "U+1CF01", "U+1CF02", "U+1CF03", "U+1CF04",
   "U+1CF05", "U+1CF06", "U+1CF07", "U+1CF08", "U+1CF09", "U+1CF0A",
   "U+1CF0B", "U+1CF0C", "U+1CF0D", "U+1CF0E", "U+1CF0F", "U+1CF10",
   "U+1CF11", "U+1CF12", "U+1CF13", "U+1CF14", "U+1CF15", "U+1CF16",
   "U+1CF17", "U+1CF18", "U+1CF19", "U+1CF1A", "U+1CF1B", "U+1CF1C",
   "U+1CF1D", "U+1CF1E", "U+1CF1F", "U+1CF20", "U+1CF21", "U+1CF22",
   "U+1CF23", "U+1CF24", "U+1CF25", "U+1CF26", "U+1CF27", "U+1CF28",
   "U+1CF29", "U+1CF2A", "U+1CF2B", "U+1CF2C", "U+1CF2D", "U+1CF30",
   "U+1CF31", "U+1CF32", "U+1CF33", "U+1CF34", "U+1CF35", "U+1CF36",
   "U+1CF37", "U+1CF38", "U+1CF39", "U+1CF3A", "U+1CF3B", "U+1CF3C",
   "U+1CF3D", "U+1CF3E", "U+1CF3F", "U+1CF40", "U+1CF41", "U+1CF42",
   "U+1CF43", "U+1CF44", "U+1CF45", "U+1CF46", "U+1D167", "U+1D168",
   "U+1D169", "U+1D173", "U+1D174", "U+1D175", "U+1D176", "U+1D177",
   "U+1D178", "U+1D179", "U+1D17A", "U+1D17B", "U+1D17C", "U+1D17D",
   "U+1D17E", "U+1D17F", "U+1D180", "U+1D181", "U+1D182", "U+1D185",
   "U+1D186", "U+1D187", "U+1D188", "U+1D189", "U+1D18A", "U+1D18B",
   "U+1D1AA", "U+1D1AB", "U+1D1AC", "U+1D1AD", "U+1D242", "U+1D243",
   "U+1D244", "U+1DA00", "U+1DA01", "U+1DA02", "U+1DA03", "U+1DA04",
   "U+1DA05", "U+1DA06", "U+1DA07", "U+1DA08", "U+1DA09", "U+1DA0A",
   "U+1DA0B", "U+1DA0C", "U+1DA0D", "U+1DA0E", "U+1DA0F", "U+1DA10",
   "U+1DA11", "U+1DA12", "U+1DA13", "U+1DA14", "U+1DA15", "U+1DA16",
   "U+1DA17", "U+1DA18", "U+1DA19", "U+1DA1A", "U+1DA1B", "U+1DA1C",
   "U+1DA1D", "U+1DA1E", "U+1DA1F", "U+1DA20", "U+1DA21", "U+1DA22",
   "U+1DA23", "U+1DA24", "U+1DA25", "U+1DA26", "U+1DA27", "U+1DA28",
   "U+1DA29", "U+1DA2A", "U+1DA2B", "U+1DA2C", "U+1DA2D", "U+1DA2E",
   "U+1DA2F", "U+1DA30", "U+1DA31", "U+1DA32", "U+1DA33", "U+1DA34",
   "U+1DA35", "U+1DA36", "U+1DA3B", "U+1DA3C", "U+1DA3D", "U+1DA3E",
   "U+1DA3F", "U+1DA40", "U+1DA41", "U+1DA42", "U+1DA43", "U+1DA44",
   "U+1DA45", "U+1DA46", "U+1DA47", "U+1DA48", "U+1DA49", "U+1DA4A",
   "U+1DA4B", "U+1DA4C", "U+1DA4D", "U+1DA4E", "U+1DA4F", "U+1DA50",
   "U+1DA51", "U+1DA52", "U+1DA53", "U+1DA54", "U+1DA55", "U+1DA56",
   "U+1DA57", "U+1DA58", "U+1DA59", "U+1DA5A", "U+1DA5B", "U+1DA5C",
   "U+1DA5D", "U+1DA5E", "U+1DA5F", "U+1DA60", "U+1DA61", "U+1DA62",
   "U+1DA63", "U+1DA64", "U+1DA65", "U+1DA66", "U+1DA67", "U+1DA68",
   "U+1DA69", "U+1DA6A", "U+1DA6B", "U+1DA6C", "U+1DA75", "U+1DA84",
   "U+1DA9B", "U+1DA9C", "U+1DA9D", "U+1DA9E", "U+1DA9F", "U+1DAA1",
   "U+1DAA2", "U+1DAA3", "U+1DAA4", "U+1DAA5", "U+1DAA6", "U+1DAA7",
   "U+1DAA8", "U+1DAA9", "U+1DAAA", "U+1DAAB", "U+1DAAC", "U+1DAAD",
   "U+1DAAE", "U+1DAAF", "U+1E000", "U+1E001", "U+1E002", "U+1E003",
   "U+1E004", "U+1E005", "U+1E006", "U+1E008", "U+1E009", "U+1E00A",
   "U+1E00B", "U+1E00C", "U+1E00D", "U+1E00E", "U+1E00F", "U+1E010",
   "U+1E011", "U+1E012", "U+1E013", "U+1E014", "U+1E015", "U+1E016",
   "U+1E017", "U+1E018", "U+1E01B", "U+1E01C", "U+1E01D", "U+1E01E",
   "U+1E01F", "U+1E020", "U+1E021", "U+1E023", "U+1E024", "U+1E026",
   "U+1E027", "U+1E028", "U+1E029", "U+1E02A", "U+1E130", "U+1E131",
   "U+1E132", "U+1E133", "U+1E134", "U+1E135", "U+1E136", "U+1E137",
   "U+1E138", "U+1E139", "U+1E13A", "U+1E13B", "U+1E13C", "U+1E13D",
   "U+1E2AE", "U+1E2EC", "U+1E2ED", "U+1E2EE", "U+1E2EF", "U+1E8D0",
   "U+1E8D1", "U+1E8D2", "U+1E8D3", "U+1E8D4", "U+1E8D5", "U+1E8D6",
   "U+1E944", "U+1E945", "U+1E946", "U+1E947", "U+1E948", "U+1E949",
   "U+1E94A", "U+1E94B", "U+1F3FB", "U+1F3FC", "U+1F3FD", "U+1F3FE",
   "U+1F3FF", "U+E0001", "U+E0020", "U+E0021", "U+E0022", "U+E0023",
   "U+E0024", "U+E0025", "U+E0026", "U+E0027", "U+E0028", "U+E0029",
   "U+E002A", "U+E002B", "U+E002C", "U+E002D", "U+E002E", "U+E002F",
   "U+E0030", "U+E0031", "U+E0032", "U+E0033", "U+E0034", "U+E0035",
   "U+E0036", "U+E0037", "U+E0038", "U+E0039", "U+E003A", "U+E003B",
   "U+E003C", "U+E003D", "U+E003E", "U+E003F", "U+E0040", "U+E0041",
   "U+E0042", "U+E0043", "U+E0044", "U+E0045", "U+E0046", "U+E0047",
   "U+E0048", "U+E0049", "U+E004A", "U+E004B", "U+E004C", "U+E004D",
   "U+E004E", "U+E004F", "U+E0050", "U+E0051", "U+E0052", "U+E0053",
   "U+E0054", "U+E0055", "U+E0056", "U+E0057", "U+E0058", "U+E0059",
   "U+E005A", "U+E005B", "U+E005C", "U+E005D", "U+E005E", "U+E005F",
   "U+E0060", "U+E0061", "U+E0062", "U+E0063", "U+E0064", "U+E0065",
   "U+E0066", "U+E0067", "U+E0068", "U+E0069", "U+E006A", "U+E006B",
   "U+E006C", "U+E006D", "U+E006E", "U+E006F", "U+E0070", "U+E0071",
   "U+E0072", "U+E0073", "U+E0074", "U+E0075", "U+E0076", "U+E0077",
   "U+E0078", "U+E0079", "U+E007A", "U+E007B", "U+E007C", "U+E007D",
   "U+E007E", "U+E007F", "U+E0100", "U+E0101", "U+E0102", "U+E0103",
   "U+E0104", "U+E0105", "U+E0106", "U+E0107", "U+E0108", "U+E0109",
   "U+E010A", "U+E010B", "U+E010C", "U+E010D", "U+E010E", "U+E010F",
   "U+E0110", "U+E0111", "U+E0112", "U+E0113", "U+E0114", "U+E0115",
   "U+E0116", "U+E0117", "U+E0118", "U+E0119", "U+E011A", "U+E011B",
   "U+E011C", "U+E011D", "U+E011E", "U+E011F", "U+E0120", "U+E0121",
   "U+E0122", "U+E0123", "U+E0124", "U+E0125", "U+E0126", "U+E0127",
   "U+E0128", "U+E0129", "U+E012A", "U+E012B", "U+E012C", "U+E012D",
   "U+E012E", "U+E012F", "U+E0130", "U+E0131", "U+E0132", "U+E0133",
   "U+E0134", "U+E0135", "U+E0136", "U+E0137", "U+E0138", "U+E0139",
   "U+E013A", "U+E013B", "U+E013C", "U+E013D", "U+E013E", "U+E013F",
   "U+E0140", "U+E0141", "U+E0142", "U+E0143", "U+E0144", "U+E0145",
   "U+E0146", "U+E0147", "U+E0148", "U+E0149", "U+E014A", "U+E014B",
   "U+E014C", "U+E014D", "U+E014E", "U+E014F", "U+E0150", "U+E0151",
   "U+E0152", "U+E0153", "U+E0154", "U+E0155", "U+E0156", "U+E0157",
   "U+E0158", "U+E0159", "U+E015A", "U+E015B", "U+E015C", "U+E015D",
   "U+E015E", "U+E015F", "U+E0160", "U+E0161", "U+E0162", "U+E0163",
   "U+E0164", "U+E0165", "U+E0166", "U+E0167", "U+E0168", "U+E0169",
   "U+E016A", "U+E016B", "U+E016C", "U+E016D", "U+E016E", "U+E016F",
   "U+E0170", "U+E0171", "U+E0172", "U+E0173", "U+E0174", "U+E0175",
   "U+E0176", "U+E0177", "U+E0178", "U+E0179", "U+E017A", "U+E017B",
   "U+E017C", "U+E017D", "U+E017E", "U+E017F", "U+E0180", "U+E0181",
   "U+E0182", "U+E0183", "U+E0184", "U+E0185", "U+E0186", "U+E0187",
   "U+E0188", "U+E0189", "U+E018A", "U+E018B", "U+E018C", "U+E018D",
   "U+E018E", "U+E018F", "U+E0190", "U+E0191", "U+E0192", "U+E0193",
   "U+E0194", "U+E0195", "U+E0196", "U+E0197", "U+E0198", "U+E0199",
   "U+E019A", "U+E019B", "U+E019C", "U+E019D", "U+E019E", "U+E019F",
   "U+E01A0", "U+E01A1", "U+E01A2", "U+E01A3", "U+E01A4", "U+E01A5",
   "U+E01A6", "U+E01A7", "U+E01A8", "U+E01A9", "U+E01AA", "U+E01AB",
   "U+E01AC", "U+E01AD", "U+E01AE", "U+E01AF", "U+E01B0", "U+E01B1",
   "U+E01B2", "U+E01B3", "U+E01B4", "U+E01B5", "U+E01B6", "U+E01B7",
   "U+E01B8", "U+E01B9", "U+E01BA", "U+E01BB", "U+E01BC", "U+E01BD",
   "U+E01BE", "U+E01BF", "U+E01C0", "U+E01C1", "U+E01C2", "U+E01C3",
   "U+E01C4", "U+E01C5", "U+E01C6", "U+E01C7", "U+E01C8", "U+E01C9",
   "U+E01CA", "U+E01CB", "U+E01CC", "U+E01CD", "U+E01CE", "U+E01CF",
   "U+E01D0", "U+E01D1", "U+E01D2", "U+E01D3", "U+E01D4", "U+E01D5",
   "U+E01D6", "U+E01D7", "U+E01D8", "U+E01D9", "U+E01DA", "U+E01DB",
   "U+E01DC", "U+E01DD", "U+E01DE", "U+E01DF", "U+E01E0", "U+E01E1",
   "U+E01E2", "U+E01E3", "U+E01E4", "U+E01E5", "U+E01E6", "U+E01E7",
   "U+E01E8", "U+E01E9", "U+E01EA", "U+E01EB", "U+E01EC", "U+E01ED",
   "U+E01EE", "U+E01EF"}

\* The decimal digits above U+007F (category Nd), by value: DecimalDigits[v + 1]
\* holds the digits of value v.
DecimalDigits ==
  <<{"U+0660", "۰", "U+06F0", "߀", "U+07C0", "U+0966", "০", "U+09E6", "U+0A66",
   "૦", "U+0AE6", "U+0B66", "௦", "U+0BE6", "U+0C66", "೦", "U+0CE6", "U+0D66",
   "෦", "U+0DE6", "U+0E50", "໐", "U+0ED0", "U+0F20", "U+1040", "႐", "U+1090",
   "០", "U+17E0", "U+1810", "U+1946", "᧐", "U+19D0", "᪀", "U+1A80", "᪐",
   "U+1A90", "U+1B50", "᮰", "U+1BB0", "U+1C40", "U+1C50", "U+A620", "꣐",
   "U+A8D0", "U+A900", "꧐", "U+A9D0", "꧰", "U+A9F0", "U+AA50", "꯰", "U+ABF0",
   "U+FF10", "U+104A0", "U+10D30", "U+11066", "U+110F0", "U+11136", "U+111D0",
   "U+112F0", "U+11450", "U+114D0", "U+11650", "U+116C0", "U+11730",
   "U+118E0", "U+11950", "U+11C50", "U+11D50", "U+11DA0", "U+16A60",
   "U+16AC0", "U+16B50", "U+1D7CE", "U+1D7D8", "U+1D7E2", "U+1D7EC",
   "U+1D7F6", "U+1E140", "U+1E2F0", "U+1E950", "U+1FBF0"},
    {"U+0661", "۱", "U+06F1", "߁", "U+07C1", "U+0967", "১", "U+09E7", "U+0A67",
   "૧", "U+0AE7", "U+0B67", "௧", "U+0BE7", "U+0C67", "೧", "U+0CE7", "U+0D67",
   "෧", "U+0DE7", "U+0E51", "໑", "U+0ED1", "U+0F21", "U+1041", "႑", "U+1091",
   "១", "U+17E1", "U+1811", "U+1947", "᧑", "U+19D1", "᪁", "U+1A81", "᪑",
   "U+1A91", "U+1B51", "᮱", "U+1BB1", "U+1C41", "U+1C51", "U+A621", "꣑",
   "U+A8D1", "U+A901", "꧑", "U+A9D1", "꧱", "U+A9F1", "U+AA51", "꯱", "U+ABF1",
   "U+FF11", "U+104A1", "U+10D31", "U+11067", "U+110F1", "U+11137", "U+111D1",
   "U+112F1", "U+11451", "U+114D1", "U+11651", "U+116C1", "U+11731",
   "U+118E1", "U+11951", "U+11C51", "U+11D51", "U+11DA1", "U+16A61",
   "U+16AC1", "U+16B51", "U+1D7CF", "U+1D7D9", "U+1D7E3", "U+1D7ED",
   "U+1D7F7", "U+1E141", "U+1E2F1", "U+1E951", "U+1FBF1"},
    {"U+0662", "۲", "U+06F2", "߂", "U+07C2", "U+0968", "২", "U+09E8", "U+0A68",
   "૨", "U+0AE8", "U+0B68", "௨", "U+0BE8", "U+0C68", "೨", "U+0CE8", "U+0D68",
   "෨", "U+0DE8", "U+0E52", "໒", "U+0ED2", "U+0F22", "U+1042", "႒", "U+1092",
   "២", "U+17E2", "U+1812", "U+1948", "᧒", "U+19D2", "᪂", "U+1A82", "᪒",
   "U+1A92", "U+1B52", "᮲", "U+1BB2", "U+1C42", "U+1C52", "U+A622", "꣒",
   "U+A8D2", "U+A902", "꧒", "U+A9D2", "꧲", "U+A9F2", "U+AA52", "꯲", "U+ABF2",
   "U+FF12", "U+104A2", "U+10D32", "U+11068", "U+110F2", "U+11138", "U+111D2",
   "U+112F2", "U+11452", "U+114D2", "U+11652", "U+116C2", "U+11732",
   "U+118E2", "U+11952", "U+11C52", "U+11D52", "U+11DA2", "U+16A62",
   "U+16AC2", "U+16B52", "U+1D7D0", "U+1D7DA", "U+1D7E4", "U+1D7EE",
   "U+1D7F8", "U+1E142", "U+1E2F2", "U+1E952", "U+1FBF2"},
    {"U+0663", "۳", "U+06F3", "߃", "U+07C3", "U+0969", "৩", "U+09E9", "U+0A69",
   "૩", "U+0AE9", "U+0B69", "௩", "U+0BE9", "U+0C69", "೩", "U+0CE9", "U+0D69",
   "෩", "U+0DE9", "U+0E53", "໓", "U+0ED3", "U+0F23", "U+1043", "႓", "U+1093",
   "៣", "U+17E3", "U+1813", "U+1949", "᧓", "U+19D3", "᪃", "U+1A83", "᪓",
   "U+1A93", "U+1B53", "᮳", "U+1BB3", "U+1C43", "U+1C53", "U+A623", "꣓",
   "U+A8D3", "U+A903", "꧓", "U+A9D3", "꧳", "U+A9F3", "U+AA53", "꯳", "U+ABF3",
   "U+FF13", "U+104A3", "U+10D33", "U+11069", "U+110F3", "U+11139", "U+111D3",
   "U+112F3", "U+11453", "U+114D3", "U+11653", "U+116C3", "U+11733",
   "U+118E3", "U+11953", "U+11C53", "U+11D53", "U+11DA3", "U+16A63",
   "U+16AC3", "U+16B53", "U+1D7D1", "U+1D7DB", "U+1D7E5", "U+1D7EF",
   "U+1D7F9", "U+1E143", "U+1E2F3", "U+1E953", "U+1FBF3"},
    {"U+0664", "۴", "U+06F4", "߄", "U+07C4", "U+096A", "৪", "U+09EA", "U+0A6A",
   "૪", "U+0AEA", "U+0B6A", "௪", "U+0BEA", "U+0C6A", "೪", "U+0CEA", "U+0D6A",
   "෪", "U+0DEA", "U+0E54", "໔", "U+0ED4", "U+0F24", "U+1044", "႔", "U+1094",
   "៤", "U+17E4", "U+1814", "U+194A", "᧔", "U+19D4", "᪄", "U+1A84", "᪔",
   "U+1A94", "U+1B54", "᮴", "U+1BB4", "U+1C44", "U+1C54", "U+A624", "꣔",
   "U+A8D4", "U+A904", "꧔", "U+A9D4", "꧴", "U+A9F4", "U+AA54", "꯴", "U+ABF4",
   "U+FF14", "U+104A4", "U+10D34", "U+1106A", "U+110F4", "U+1113A", "U+111D4",
   "U+112F4", "U+11454", "U+114D4", "U+11654", "U+116C4", "U+11734",
   "U+118E4", "U+11954", "U+11C54", "U+11D54", "U+11DA4", "U+16A64",
   "U+16AC4", "U+16B54", "U+1D7D2", "U+1D7DC", "U+1D7E6", "U+1D7F0",
   "U+1D7FA", "U+1E144", "U+1E2F4", "U+1E954", "U+1FBF4"},
    {"U+0665", "۵", "U+06F5", "߅", "U+07C5", "U+096B", "৫", "U+09EB", "U+0A6B",
   "૫", "U+0AEB", "U+0B6B", "௫", "U+0BEB", "U+0C6B", "೫", "U+0CEB", "U+0D6B",
   "෫", "U+0DEB", "U+0E55", "໕", "U+0ED5", "U+0F25", "U+1045", "႕", "U+1095",
   "៥", "U+17E5", "U+1815", "U+194B", "᧕", "U+19D5", "᪅", "U+1A85", "᪕",
   "U+1A95", "U+1B55", "᮵", "U+1BB5", "U+1C45", "U+1C55", "U+A625", "꣕",
   "U+A8D5", "U+A905", "꧕", "U+A9D5", "꧵", "U+A9F5", "U+AA55", "꯵", "U+ABF5",
   "U+FF15", "U+104A5", "U+10D35", "U+1106B", "U+110F5", "U+1113B", "U+111D5",
   "U+112F5", "U+11455", "U+114D5", "U+11655", "U+116C5", "U+11735",
   "U+118E5", "U+11955", "U+11C55", "U+11D55", "U+11DA5", "U+16A65",
   "U+16AC5", "U+16B55", "U+1D7D3", "U+1D7DD", "U+1D7E7", "U+1D7F1",
   "U+1D7FB", "U+1E145", "U+1E2F5", "U+1E955", "U+1FBF5"},
    {"U+0666", "۶", "U+06F6", "߆", "U+07C6", "U+096C", "৬", "U+09EC", "U+0A6C",
   "૬", "U+0AEC", "U+0B6C", "௬", "U+0BEC", "U+0C6C", "೬", "U+0CEC", "U+0D6C",
   "෬", "U+0DEC", "U+0E56", "໖", "U+0ED6", "U+0F26", "U+1046", "႖", "U+1096",
   "៦", "U+17E6", "U+1816", "U+194C", "᧖", "U+19D6", "᪆", "U+1A86", "᪖",
   "U+1A96", "U+1B56", "᮶", "U+1BB6", "U+1C46", "U+1C56", "U+A626", "꣖",
   "U+A8D6", "U+A906", "꧖", "U+A9D6", "꧶", "U+A9F6", "U+AA56", "꯶", "U+ABF6",
   "U+FF16", "U+104A6", "U+10D36", "U+1106C", "U+110F6", "U+1113C", "U+111D6",
   "U+112F6", "U+11456", "U+114D6", "U+11656", "U+116C6", "U+11736",
   "U+118E6", "U+11956", "U+11C56", "U+11D56", "U+11DA6", "U+16A66",
   "U+16AC6", "U+16B56", "U+1D7D4", "U+1D7DE", "U+1D7E8", "U+1D7F2",
   "U+1D7FC", "U+1E146", "U+1E2F6", "U+1E956", "U+1FBF6"},
    {"U+0667", "۷", "U+06F7", "߇", "U+07C7", "U+096D", "৭", "U+09ED", "U+0A6D",
   "૭", "U+0AED", "U+0B6D", "௭", "U+0BED", "U+0C6D", "೭", "U+0CED", "U+0D6D",
   "෭", "U+0DED", "U+0E57", "໗", "U+0ED7", "U+0F27", "U+1047", "႗", "U+1097",
   "៧", "U+17E7", "U+1817", "U+194D", "᧗", "U+19D7", "᪇", "U+1A87", "᪗",
   "U+1A97", "U+1B57", "᮷", "U+1BB7", "U+1C47", "U+1C57", "U+A627", "꣗",
   "U+A8D7", "U+A907", "꧗", "U+A9D7", "꧷", "U+A9F7", "U+AA57", "꯷", "U+ABF7",
   "U+FF17", "U+104A7", "U+10D37", "U+1106D", "U+110F7", "U+1113D", "U+111D7",
   "U+112F7", "U+11457", "U+114D7", "U+11657", "U+116C7", "U+11737",
   "U+118E7", "U+11957", "U+11C57", "U+11D57", "U+11DA7", "U+16A67",
   "U+16AC7", "U+16B57", "U+1D7D5", "U+1D7DF", "U+1D7E9", "U+1D7F3",
   "U+1D7FD", "U+1E147", "U+1E2F7", "U+1E957", "U+1FBF7"},
    {"U+0668", "۸", "U+06F8", "߈", "U+07C8", "U+096E", "৮", "U+09EE", "U+0A6E",
   "૮", "U+0AEE", "U+0B6E", "௮", "U+0BEE", "U+0C6E", "೮", "U+0CEE", "U+0D6E",
   "෮", "U+0DEE", "U+0E58", "໘", "U+0ED8", "U+0F28", "U+1048", "႘", "U+1098",
   "៨", "U+17E8", "U+1818", "U+194E", "᧘", "U+19D8", "᪈", "U+1A88", "᪘",
   "U+1A98", "U+1B58", "᮸", "U+1BB8", "U+1C48", "U+1C58", "U+A628", "꣘",
   "U+A8D8", "U+A908", "꧘", "U+A9D8", "꧸", "U+A9F8", "U+AA58", "꯸", "U+ABF8",
   "U+FF18", "U+104A8", "U+10D38", "U+1106E", "U+110F8", "U+1113E", "U+111D8",
   "U+112F8", "U+11458", "U+114D8", "U+11658", "U+116C8", "U+11738",
   "U+118E8", "U+11958", "U+11C58", "U+11D58", "U+11DA8", "U+16A68",
   "U+16AC8", "U+16B58", "U+1D7D6", "U+1D7E0", "U+1D7EA", "U+1D7F4",
   "U+1D7FE", "U+1E148", "U+1E2F8", "U+1E958", "U+1FBF8"},
    {"U+0669", "۹", "U+06F9", "߉", "U+07C9", "U+096F", "৯", "U+09EF", "U+0A6F",
   "૯", "U+0AEF", "U+0B6F", "௯", "U+0BEF", "U+0C6F", "೯", "U+0CEF", "U+0D6F",
   "෯", "U+0DEF", "U+0E59", "໙", "U+0ED9", "U+0F29", "U+1049", "႙", "U+1099",
   "៩", "U+17E9", "U+1819", "U+194F", "᧙", "U+19D9", "᪉", "U+1A89", "᪙",
   "U+1A99", "U+1B59", "᮹", "U+1BB9", "U+1C49", "U+1C59", "U+A629", "꣙",
   "U+A8D9", "U+A909", "꧙", "U+A9D9", "꧹", "U+A9F9", "U+AA59", "꯹", "U+ABF9",
   "U+FF19", "U+104A9", "U+10D39", "U+1106F", "U+110F9", "U+1113F", "U+111D9",
   "U+112F9", "U+11459", "U+114D9", "U+11659", "U+116C9", "U+11739",
   "U+118E9", "U+11959", "U+11C59", "U+11D59", "U+11DA9", "U+16A69",
   "U+16AC9", "U+16B59", "U+1D7D7", "U+1D7E1", "U+1D7EB", "U+1D7F5",
   "U+1D7FF", "U+1E149", "U+1E2F9", "U+1E959", "U+1FBF9"}>>

IsHex(c) == c \in DOMAIN HexTab

SetMin(S) == CHOOSE x \in S : \A y \in S : x <= y
SetMax(S) == CHOOSE x \in S : \A y \in S : x >= y

\* str.strip(): drop leading and trailing whitespace.
Strip(s) ==
  LET keep == {i \in 1..Len(s) : s[i] \notin Whitespace}
  IN  IF keep = {} THEN <<>> ELSE SubSeq(s, SetMin(keep), SetMax(keep))

\* str.startswith(p)
StartsWith(s, p) == Len(s) >= Len(p) /\ SubSeq(s, 1, Len(p)) = p

\* Whether the capital sigma at position i of s ends a word: a cased
\* character stands before it and none after it, the case-ignorable
\* characters next to it looked past on both sides.
FinalSigma(s, i) ==
  LET before == {j \in 1..(i - 1) : s[j] \notin CaseIgnorable}
      after == {j \in (i + 1)..Len(s) : s[j] \notin CaseIgnorable}
  IN  /\ before # {}
      /\ s[SetMax(before)] \in Cased
      /\ after = {} \/ s[SetMin(after)] \notin Cased

\* The lowercase form of the character at position i of s, a text of one
\* character or, for U+0130, of two.
LowerAt(s, i) ==
  IF s[i] = "Σ" THEN IF FinalSigma(s, i) THEN <<"ς">> ELSE <<"σ">>
  ELSE IF s[i] = "U+03A3"
       THEN IF FinalSigma(s, i) THEN <<"U+03C2">> ELSE <<"U+03C3">>
  ELSE IF s[i] = "U+0130" THEN <<"i", "U+0307">>
  ELSE IF s[i] \in DOMAIN LowerTab THEN <<LowerTab[s[i]]>>
  ELSE <<s[i]>>

RECURSIVE LowerRest(_, _)
LowerRest(s, i) ==
  IF i > Len(s) THEN <<>> ELSE LowerAt(s, i) \o LowerRest(s, i + 1)

\* str.lower()
Lower(s) == LowerRest(s, 1)

\* int(digits, 16) on a run of hexadecimal digits.
RECURSIVE HexToInt(_)
HexToInt(ds) ==
  IF ds = <<>> THEN 0
  ELSE HexToInt(SubSeq(ds, 1, Len(ds) - 1)) * 16 + HexTab[ds[Len(ds)]]

\* The digits of hex(n) for n >= 0.
RECURSIVE HexDigitsOf(_)
HexDigitsOf(n) ==
  IF n < 16 THEN <<HexChars[n + 1]>>
  ELSE HexDigitsOf(n \div 16) \o <<HexChars[(n % 16) + 1]>>

\* Python's hex(a).
PyHex(a) ==
  IF a < 0 THEN <<"-", "0", "x">> \o HexDigitsOf(0 - a)
  ELSE <<"0", "x">> \o HexDigitsOf(a)

\* ADDR_RE.search(s): the leftmost "0x" followed by at least one hex digit,
\* extended greedily.  first/last are the 1-based positions of the match
\* (last is inclusive, so Python's m.end() is last).
ADDR_RE(s) ==
  LET starts == {i \in 1..(Len(s) - 2) :
                   s[i] = "0" /\ s[i + 1] = "x" /\ IsHex(s[i + 2])}
  IN  IF starts = {} THEN [found |-> FALSE, first |-> 0, last |-> 0, val |-> None]
      ELSE LET i == SetMin(starts)
               j == SetMax({k \in (i + 2)..Len(s) :
                              \A m \in (i + 2)..k : IsHex(s[m])})
           IN  [found |-> TRUE, first |-> i, last |-> j,
                val |-> HexToInt(SubSeq(s, i + 2, j))]

\* ------------------------------------------------------------ the decoder
_clean_line(line) ==
  LET l == Strip(line)
  IN  IF StartsWith(l, <<"=", ">">>) THEN Strip(SubSeq(l, 3, Len(l))) ELSE l

\* rest.split(None, 1): the first whitespace-delimited token and the
\* remainder with its leading whitespace dropped (rest is non-empty and
\* already stripped).
SplitFirst(rest) ==
  LET ws == {i \in 1..Len(rest) : rest[i] \in Whitespace}
  IN  IF ws = {} THEN <<rest>>
      ELSE LET w == SetMin(ws)
               tail == {i \in w..Len(rest) : rest[i] \notin Whitespace}
           IN  IF tail = {} THEN <<SubSeq(rest, 1, w - 1)>>
               ELSE <<SubSeq(rest, 1, w - 1),
                      SubSeq(rest, SetMin(tail), Len(rest))>>

\* _parse_insn without its "if not m: raise": a line without an address
\* decodes to address 0.
_parse_insn_noraise(line0) ==
  LET line == _clean_line(line0)
      m == ADDR_RE(line)
      colons == {i \in 1..Len(line) : line[i] = ":"}
      rest0 == IF colons # {} THEN SubSeq(line, SetMin(colons) + 1, Len(line))
               ELSE SubSeq(line, m.last + 1, Len(line))
      rest == Strip(rest0)
      parts == SplitFirst(rest)
  IN  IF rest = <<>>
      THEN [ok |-> TRUE, addr |-> IF m.found THEN m.val ELSE 0, mnem |-> <<>>,
            op |-> <<>>]
      ELSE [ok |-> TRUE, addr |-> IF m.found THEN m.val ELSE 0, mnem |-> parts[1],
            op |-> IF Len(parts) > 1 THEN Strip(parts[2]) ELSE <<>>]

\* _parse_insn splitting at the last ':' of the line instead of the first.
_parse_insn_lastcolon(line0) ==
  LET line == _clean_line(line0)
      m == ADDR_RE(line)
      colons == {i \in 1..Len(line) : line[i] = ":"}
      rest0 == IF colons # {} THEN SubSeq(line, SetMax(colons) + 1, Len(line))
               ELSE SubSeq(line, m.last + 1, Len(line))
      rest == Strip(rest0)
      parts == SplitFirst(rest)
  IN  IF ~m.found THEN [ok |-> FALSE, addr |-> None, mnem |-> <<>>, op |-> <<>>]
      ELSE IF rest = <<>> THEN [ok |-> TRUE, addr |-> m.val, mnem |-> <<>>, op |-> <<>>]
      ELSE [ok |-> TRUE, addr |-> m.val, mnem |-> parts[1],
            op |-> IF Len(parts) > 1 THEN Strip(parts[2]) ELSE <<>>]

\* Returns ok = FALSE for the RuntimeError "failed to parse address".
_parse_insn(line0) ==
  LET line == _clean_line(line0)
      m == ADDR_RE(line)
      colons == {i \in 1..Len(line) : line[i] = ":"}
      rest0 == IF colons # {} THEN SubSeq(line, SetMin(colons) + 1, Len(line))
               ELSE SubSeq(line, m.last + 1, Len(line))
      rest == Strip(rest0)
      parts == SplitFirst(rest)
  IN  IF ~m.found THEN [ok |-> FALSE, addr |-> None, mnem |-> <<>>, op |-> <<>>]
      ELSE IF rest = <<>> THEN [ok |-> TRUE, addr |-> m.val, mnem |-> <<>>, op |-> <<>>]
      ELSE [ok |-> TRUE, addr |-> m.val, mnem |-> parts[1],
            op |-> IF Len(parts) > 1 THEN Strip(parts[2]) ELSE <<>>]

_addr_from_operand(op) ==
  LET m == ADDR_RE(op) IN IF ~m.found THEN None ELSE m.val


\* --------------------------------------------------------------- the target
\* The program the target executes: what each instruction does when the
\* target runs it (its kind, its linear successor, its run-time target);
\* "icall" and "ijmp" take their target from a register or from memory.
\* 0x10..0x23 is main, 0x30..0x33 are callees, 0x34..0x36 is the end of
\* one mapping, 0x50..0x56 is a second mapping; the jump at 0x54 spins
\* on itself.
Insn ==
  16 :> [kind |-> "lin", next |-> 17, tgt |-> 0] @@
  17 :> [kind |-> "lin", next |-> 19, tgt |-> 0] @@
  19 :> [kind |-> "lin", next |-> 20, tgt |-> 0] @@
  20 :> [kind |-> "call", next |-> 22, tgt |-> 48] @@
  22 :> [kind |-> "jcc", next |-> 24, tgt |-> 26] @@
  24 :> [kind |-> "icall", next |-> 26, tgt |-> 48] @@
  26 :> [kind |-> "icall", next |-> 28, tgt |-> 48] @@
  28 :> [kind |-> "jcc", next |-> 30, tgt |-> 30] @@
  30 :> [kind |-> "jmp", next |-> 32, tgt |-> 34] @@
  32 :> [kind |-> "ijmp", next |-> 34, tgt |-> 16] @@
  34 :> [kind |-> "lin", next |-> 35, tgt |-> 0] @@
  35 :> [kind |-> "exit", next |-> 36, tgt |-> 0] @@
  48 :> [kind |-> "lin", next |-> 50, tgt |-> 0] @@
  50 :> [kind |-> "ret", next |-> 51, tgt |-> 0] @@
  51 :> [kind |-> "ret", next |-> 52, tgt |-> 0] @@
  52 :> [kind |-> "lin", next |-> 53, tgt |-> 0] @@
  53 :> [kind |-> "lin", next |-> 54, tgt |-> 0] @@
  54 :> [kind |-> "lin", next |-> 55, tgt |-> 0] @@
  80 :> [kind |-> "jcc", next |-> 82, tgt |-> 84] @@
  82 :> [kind |-> "jmp", next |-> 84, tgt |-> 52] @@
  84 :> [kind |-> "jmp", next |-> 86, tgt |-> 84] @@
  86 :> [kind |-> "exit", next |-> 87, tgt |-> 0]

\* What the host's disassembler prints for the instruction at each address
\* (the "<hex-address>: <mnemonic> [operand]" line of "x/i").
Text ==
  \* 0x10 <main>:\tnop
  16 :> <<"0","x","1","0"," ","<","m","a","i","n",">",":","\t","n","o","p">> @@
  \* 0x11:\tmov eax,0x40
  17 :> <<"0","x","1","1",":","\t","m","o","v"," ","e","a","x",",","0","x","4","0">> @@
  \* 0x13:\tpush rbp
  19 :> <<"0","x","1","3",":","\t","p","u","s","h"," ","r","b","p">> @@
  \* 0x14:\tcall   0x30 <f>
  20 :> <<"0","x","1","4",":","\t","c","a","l","l"," "," "," ","0","x","3","0"," ","<","f",">">> @@
  \* 0x16:\tje 0x1a
  22 :> <<"0","x","1","6",":","\t","j","e"," ","0","x","1","a">> @@
  \* 0x18:\tcall rax
  24 :> <<"0","x","1","8",":","\t","c","a","l","l"," ","r","a","x">> @@
  \* 0x1a:\tcall [rbx+0x18]
  26 :> <<"0","x","1","a",":","\t","c","a","l","l"," ","[","r","b","x","+","0","x","1","8","]">> @@
  \* 0x1c:\tJNE 0x1e
  28 :> <<"0","x","1","c",":","\t","J","N","E"," ","0","x","1","e">> @@
  \* 0x1e:\tjmp 0x22
  30 :> <<"0","x","1","e",":","\t","j","m","p"," ","0","x","2","2">> @@
  \* 0x20:\tjmp rcx
  32 :> <<"0","x","2","0",":","\t","j","m","p"," ","r","c","x">> @@
  \* 0x22:\tnop
  34 :> <<"0","x","2","2",":","\t","n","o","p">> @@
  \* 0x23:\thlt
  35 :> <<"0","x","2","3",":","\t","h","l","t">> @@
  \* 0x30 <f>:\tinc eax
  48 :> <<"0","x","3","0"," ","<","f",">",":","\t","i","n","c"," ","e","a","x">> @@
  \* 0x32:\tret
  50 :> <<"0","x","3","2",":","\t","r","e","t">> @@
  \* 0x33:\tRETQ 0x8
  51 :> <<"0","x","3","3",":","\t","R","E","T","Q"," ","0","x","8">> @@
  \* 0x34:\tnop
  52 :> <<"0","x","3","4",":","\t","n","o","p">> @@
  \* <unavailable>
  53 :> <<"<","u","n","a","v","a","i","l","a","b","l","e",">">> @@
  \* 0x36:\tnop
  54 :> <<"0","x","3","6",":","\t","n","o","p">> @@
  \* 0x50 <g>:\tjb rdx
  80 :> <<"0","x","5","0"," ","<","g",">",":","\t","j","b"," ","r","d","x">> @@
  \* 0x52:\tJMPQ 0x34
  82 :> <<"0","x","5","2",":","\t","J","M","P","Q"," ","0","x","3","4">> @@
  \* 0x54:\tjmp 0x54
  84 :> <<"0","x","5","4",":","\t","j","m","p"," ","0","x","5","4">> @@
  \* 0x56:\thlt
  86 :> <<"0","x","5","6",":","\t","h","l","t">>

Mapped == DOMAIN Insn

\* Output of gdb's "x/2i $pc": the line of the instruction at pc behind the
\* "=> " marker and the line of its linear successor, one per line; nothing
\* is printed for an address outside the mapped text.
XOut(pc) ==
  LET line(a, mark) == IF a \in Mapped THEN mark \o Text[a] \o <<"\n">>
                       ELSE <<" ", "\n">>
  IN  IF pc \in Mapped
      THEN line(pc, <<"=", ">", " ">>) \o line(Insn[pc].next, <<" ", " ", " ">>)
      ELSE <<>>

\* str.splitlines(): the lines without their line breaks; "\r\n" is one
\* line break, and a line break at the end of the text starts no line.
RECURSIVE SplitLines(_)
SplitLines(s) ==
  LET nl == {i \in 1..Len(s) : s[i] \in LineBreaks}
  IN  IF s = <<>> THEN <<>>
      ELSE IF nl = {} THEN <<s>>
      ELSE LET i == SetMin(nl)
               j == IF s[i] = "\r" /\ i < Len(s) /\ s[i + 1] = "\n"
                    THEN i + 1 ELSE i
           IN  <<SubSeq(s, 1, i - 1)>> \o SplitLines(SubSeq(s, j + 1, Len(s)))

\* ok = FALSE for the RuntimeError "x/2i $pc returned < 2 lines".
_disas2(out) ==
  LET lines == SelectSeq(SplitLines(out), LAMBDA l : Strip(l) # <<>>)
  IN  IF Len(lines) < 2 THEN [ok |-> FALSE, l0 |-> <<>>, l1 |-> <<>>]
      ELSE [ok |-> TRUE, l0 |-> lines[1], l1 |-> lines[2]]

\* ----------------------------------------------------------------- state
VARIABLES
  tpc,        \* target: program counter
  stack,      \* target: return addresses, top first ([rsp] is its head)
  alive,      \* target: the process has not exited
  hostBps,    \* host: the breakpoint set, records [id, addr, temp, internal, iter]
  rejected,   \* host: addresses at which it refuses to create a breakpoint
  oldGdb,     \* host: gdb.Breakpoint does not accept internal=
  ctl,        \* controller position: "idle", "iter" (loop head), "running"
  next_over_call, \* mode of the command in progress (TRUE for nni)
  remaining,  \* iterations of range(n) not yet finished
  bps,        \* handles returned by _set_temp_bps in the iteration in flight
  err,        \* exception the last command raised to its caller, or "none"
  invokes,    \* number of commands issued so far
  log         \* history: one record per iteration of the command in progress

vars == <<tpc, stack, alive, hostBps, rejected, oldGdb, ctl,
          next_over_call, remaining, bps, err, invokes, log>>

\* ------------------------------------------------------------- the host
\* gdb.Breakpoint(spec, temporary=True[, internal=True]) as the host answers
\* it: "TypeError" when the keyword internal= is not supported, "error" when
\* the location is refused, else the address the location "*0x.." names.
HostBreakpoint(spec, internal) ==
  LET m == ADDR_RE(spec)
  IN  IF internal /\ oldGdb THEN [res |-> "TypeError", addr |-> None]
      ELSE IF spec = <<>> \/ Head(spec) # "*" \/ ~m.found \/ m.val \in rejected
      THEN [res |-> "error", addr |-> None]
      ELSE [res |-> "ok", addr |-> m.val]

\* The 8-byte value at [rsp] (0 below the outermost frame).
StackTop == IF stack # <<>> THEN Head(stack) ELSE 0

\* _read_u64("(unsigned long long)*(unsigned long long*)$rsp"): the 8-byte
\* value on top of the stack, or ok = FALSE when the host cannot evaluate it.
_read_u64(readable) == [ok |-> readable, val |-> StackTop]

\* ------------------------------------------------ breakpoint life cycle
\* A handle the host has not given to a breakpoint it holds.
FreshId(host) == SetMin({n \in 1..(Cardinality(host) + 1) : \A b \in host : b.id # n})

\* _set_temp_bps with the rejection swallowed: a refused candidate is
\* skipped and the loop goes on.
RECURSIVE _set_temp_bps_swallow(_, _, _)
_set_temp_bps_swallow(addrs, host, it) ==
  IF addrs = <<>> THEN [ok |-> TRUE, bps |-> <<>>, host |-> host]
  ELSE IF Head(addrs) = None THEN _set_temp_bps_swallow(Tail(addrs), host, it)
  ELSE LET spec == <<"*">> \o PyHex(Head(addrs))
           r1 == HostBreakpoint(spec, TRUE)
           r == IF r1.res = "TypeError" THEN HostBreakpoint(spec, FALSE) ELSE r1
           nid == FreshId(host)
       IN  IF r.res # "ok" THEN _set_temp_bps_swallow(Tail(addrs), host, it)
           ELSE LET bp == [id |-> nid, addr |-> r.addr, temp |-> TRUE,
                           internal |-> (r1.res = "ok"), iter |-> it]
                    rest == _set_temp_bps_swallow(Tail(addrs), host \cup {bp}, it)
                IN  [rest EXCEPT !.bps = <<nid>> \o @]

\* ok = FALSE when gdb.Breakpoint raised: the exception leaves the function,
\* so no list is returned, and host is the set as the exception left it.
\* it names the iteration that creates the breakpoints.
RECURSIVE _set_temp_bps(_, _, _)
_set_temp_bps(addrs, host, it) ==
  IF addrs = <<>> THEN [ok |-> TRUE, bps |-> <<>>, host |-> host]
  ELSE IF Head(addrs) = None THEN _set_temp_bps(Tail(addrs), host, it)
  ELSE LET spec == <<"*">> \o PyHex(Head(addrs))
           r1 == HostBreakpoint(spec, TRUE)
           r == IF r1.res = "TypeError" THEN HostBreakpoint(spec, FALSE) ELSE r1
           nid == FreshId(host)
       IN  IF r.res # "ok"
           THEN [ok |-> FALSE, bps |-> <<>>, host |-> host]
           ELSE LET bp == [id |-> nid, addr |-> r.addr, temp |-> TRUE,
                           internal |-> (r1.res = "ok"), iter |-> it]
                    rest == _set_temp_bps(Tail(addrs), host \cup {bp}, it)
                IN  [rest EXCEPT !.bps = IF rest.ok THEN <<nid>> \o @ ELSE <<>>]

\* _delete_bps with the try around the whole loop: the first delete that
\* raises ends the cleanup.
RECURSIVE _delete_bps_abort(_, _)
_delete_bps_abort(bs, host) ==
  IF bs = <<>> THEN host
  ELSE IF \A b \in host : b.id # Head(bs) THEN host
  ELSE _delete_bps_abort(Tail(bs), {b \in host : b.id # Head(bs)})

\* bp.delete() for every handle; deleting a handle the host no longer holds
\* raises, which is swallowed.
_delete_bps(bs, host) ==
  {b \in host : \A i \in 1..Len(bs) : b.id # bs[i]}

\* ------------------------------------------------------- the classifier
\* IsRet without the lower(): "RET" is not taken for a return.
IsRet_CaseSensitive(mnem) == StartsWith(mnem, <<"r", "e", "t">>)

\* Whether _step_like takes the mnemonic for a return (and reads [rsp]).
IsRet(mnem) == StartsWith(Lower(mnem), <<"r", "e", "t">>)

\* Classify with the modes of the call branch exchanged.
Classify_SwapModes(over, mnem, op, nxt_addr, rd) ==
  LET mnem_l == Lower(mnem)
      tgt == _addr_from_operand(op)
  IN  IF IsRet(mnem)
      THEN IF rd.ok THEN <<rd.val>> ELSE <<nxt_addr>>
      ELSE IF StartsWith(mnem_l, <<"c", "a", "l", "l">>)
      THEN IF ~over THEN <<nxt_addr>>
           ELSE IF tgt # None THEN <<tgt>> ELSE <<nxt_addr>>
      ELSE IF StartsWith(mnem_l, <<"j">>)
      THEN IF mnem_l \in {<<"j", "m", "p">>, <<"j", "m", "p", "q">>}
           THEN IF tgt # None THEN <<tgt>> ELSE <<nxt_addr>>
           ELSE <<nxt_addr>> \o (IF tgt # None THEN <<tgt>> ELSE <<>>)
      ELSE <<nxt_addr>>

\* Classify with the linear bucket treated like an unconditional jump: an
\* address literal in the operand is armed instead of the fall-through.
Classify_LinearOperand(over, mnem, op, nxt_addr, rd) ==
  LET mnem_l == Lower(mnem)
      tgt == _addr_from_operand(op)
  IN  IF IsRet(mnem)
      THEN IF rd.ok THEN <<rd.val>> ELSE <<nxt_addr>>
      ELSE IF StartsWith(mnem_l, <<"c", "a", "l", "l">>)
      THEN IF over THEN <<nxt_addr>>
           ELSE IF tgt # None THEN <<tgt>> ELSE <<nxt_addr>>
      ELSE IF StartsWith(mnem_l, <<"j">>) /\ mnem_l \notin {<<"j", "m", "p">>, <<"j", "m", "p", "q">>}
      THEN <<nxt_addr>> \o (IF tgt # None THEN <<tgt>> ELSE <<>>)
      ELSE IF tgt # None THEN <<tgt>> ELSE <<nxt_addr>>

\* Classify with the unconditional forms treated like a conditional jump:
\* the fall-through address is armed next to the target.
Classify_JmpAsJcc(over, mnem, op, nxt_addr, rd) ==
  LET mnem_l == Lower(mnem)
      tgt == _addr_from_operand(op)
  IN  IF IsRet(mnem)
      THEN IF rd.ok THEN <<rd.val>> ELSE <<nxt_addr>>
      ELSE IF StartsWith(mnem_l, <<"c", "a", "l", "l">>)
      THEN IF over THEN <<nxt_addr>>
           ELSE IF tgt # None THEN <<tgt>> ELSE <<nxt_addr>>
      ELSE IF StartsWith(mnem_l, <<"j">>)
      THEN <<nxt_addr>> \o (IF tgt # None THEN <<tgt>> ELSE <<>>)
      ELSE <<nxt_addr>>

\* Classify with a conditional jump treated like an unconditional one: only
\* the target is armed when the operand names one.
Classify_JccTargetOnly(over, mnem, op, nxt_addr, rd) ==
  LET mnem_l == Lower(mnem)
      tgt == _addr_from_operand(op)
  IN  IF IsRet(mnem)
      THEN IF rd.ok THEN <<rd.val>> ELSE <<nxt_addr>>
      ELSE IF StartsWith(mnem_l, <<"c", "a", "l", "l">>)
      THEN IF over THEN <<nxt_addr>>
           ELSE IF tgt # None THEN <<tgt>> ELSE <<nxt_addr>>
      ELSE IF StartsWith(mnem_l, <<"j">>)
      THEN IF tgt # None THEN <<tgt>> ELSE <<nxt_addr>>
      ELSE <<nxt_addr>>

\* Classify with the mode read outside the call branch: nni arms only the
\* fall-through address of a jump.
Classify_OverSkipsJumps(over, mnem, op, nxt_addr, rd) ==
  LET mnem_l == Lower(mnem)
      tgt == _addr_from_operand(op)
  IN  IF IsRet(mnem)
      THEN IF rd.ok THEN <<rd.val>> ELSE <<nxt_addr>>
      ELSE IF StartsWith(mnem_l, <<"c", "a", "l", "l">>)
      THEN IF over THEN <<nxt_addr>>
           ELSE IF tgt # None THEN <<tgt>> ELSE <<nxt_addr>>
      ELSE IF StartsWith(mnem_l, <<"j">>)
      THEN IF over THEN <<nxt_addr>>
           ELSE IF mnem_l \in {<<"j", "m", "p">>, <<"j", "m", "p", "q">>}
           THEN IF tgt # None THEN <<tgt>> ELSE <<nxt_addr>>
           ELSE <<nxt_addr>> \o (IF tgt # None THEN <<tgt>> ELSE <<>>)
      ELSE <<nxt_addr>>

\* The candidate addresses of _step_like (the list addrs), from the decoded
\* instruction, its fall-through address and the result rd of _read_u64.
Classify(over, mnem, op, nxt_addr, rd) ==
  LET mnem_l == Lower(mnem)
      tgt == _addr_from_operand(op)
  IN  IF IsRet(mnem)
      THEN IF rd.ok THEN <<rd.val>> ELSE <<nxt_addr>>
      ELSE IF StartsWith(mnem_l, <<"c", "a", "l", "l">>)
      THEN IF over THEN <<nxt_addr>>
           ELSE IF tgt # None THEN <<tgt>> ELSE <<nxt_addr>>
      ELSE IF StartsWith(mnem_l, <<"j">>)
      THEN IF mnem_l \in {<<"j", "m", "p">>, <<"j", "m", "p", "q">>}
           THEN IF tgt # None THEN <<tgt>> ELSE <<nxt_addr>>
           ELSE <<nxt_addr>> \o (IF tgt # None THEN <<tgt>> ELSE <<>>)
      ELSE <<nxt_addr>>

\* ------------------------------------------------------ command arguments
\* The value of a run of digits of the base, digit-group underscores
\* skipped.
RECURSIVE DigitsToInt(_, _)
DigitsToInt(ds, base) ==
  IF ds = <<>> THEN 0
  ELSE IF Len(ds) = 1 THEN IF ds[1] = "_" THEN 0 ELSE HexTab[ds[1]]
  ELSE LET h == Len(ds) \div 2
           hi == DigitsToInt(SubSeq(ds, 1, h), base)
           lo == SubSeq(ds, h + 1, Len(ds))
       IN  IF hi = 0 THEN DigitsToInt(lo, base)
           ELSE hi * base ^ Cardinality({i \in 1..Len(lo) : lo[i] # "_"})
                + DigitsToInt(lo, base)

RECURSIVE DecDigitsOf(_)
DecDigitsOf(n) ==
  IF n < 10 THEN <<HexChars[n + 1]>>
  ELSE DecDigitsOf(n \div 10) \o <<HexChars[(n % 10) + 1]>>

\* What int() makes of a character before it parses the text: a character
\* below U+007F stays as it is, any other whitespace becomes a blank and any
\* other decimal digit the ASCII digit of its value.  Every other character
\* stays and fails the parse.
ToAscii(c) ==
  IF c \in Whitespace \ AsciiSpace THEN " "
  ELSE IF \E v \in 1..10 : c \in DecimalDigits[v]
       THEN HexChars[CHOOSE v \in 1..10 : c \in DecimalDigits[v]]
  ELSE c

\* The whitespace int() drops around the number.
IntStrip(s) ==
  LET keep == {i \in 1..Len(s) : s[i] \notin IntSpace}
  IN  IF keep = {} THEN <<>> ELSE SubSeq(s, SetMin(keep), SetMax(keep))

\* The most digits int() takes in a decimal literal
\* (sys.get_int_max_str_digits(), as the interpreter starts).
IntMaxStrDigits == 4300

\* int(s0, 0): the text is brought to ASCII and the whitespace around it
\* dropped; then an optional sign and either a prefix 0x / 0o / 0b (either
\* case) with digits of that base, or a decimal literal, which has no
\* leading zero unless it is all zeros and no more than IntMaxStrDigits
\* digits, zeros counted and underscores not.  Single underscores may stand
\* between digits and after a prefix.  ok = FALSE for ValueError.
PyInt0(s0) ==
  LET s == IntStrip([i \in 1..Len(s0) |-> ToAscii(s0[i])])
      neg == s # <<>> /\ Head(s) = "-"
      body == IF s # <<>> /\ Head(s) \in {"-", "+"} THEN Tail(s) ELSE s
      pre == IF Len(body) >= 2 /\ body[1] = "0"
             THEN IF body[2] \in {"x", "X"} THEN 16
                  ELSE IF body[2] \in {"o", "O"} THEN 8
                  ELSE IF body[2] \in {"b", "B"} THEN 2
                  ELSE 0
             ELSE 0
      base == IF pre = 0 THEN 10 ELSE pre
      digs == IF pre = 0 THEN body ELSE SubSeq(body, 3, Len(body))
      isDigit(c) == c \in DOMAIN HexTab /\ HexTab[c] < base
      wellFormed ==
        /\ digs # <<>>
        /\ \A i \in 1..Len(digs) : isDigit(digs[i]) \/ digs[i] = "_"
        /\ digs[Len(digs)] # "_"
        /\ pre = 0 => digs[1] # "_"
        /\ \A i \in 1..(Len(digs) - 1) : ~(digs[i] = "_" /\ digs[i + 1] = "_")
        /\ (pre = 0 /\ digs[1] = "0") =>
             \A i \in 1..Len(digs) : digs[i] \in {"0", "_"}
        /\ pre = 0 =>
             Cardinality({i \in 1..Len(digs) : digs[i] # "_"}) <= IntMaxStrDigits
      mag == DigitsToInt(digs, base)
  IN  IF wellFormed THEN [ok |-> TRUE, val |-> IF neg THEN 0 - mag ELSE mag]
      ELSE [ok |-> FALSE, val |-> 0]

\* The argument strings the user gives to ssi / nni; "U+0662" is the
\* Arabic-Indic digit two.
Args ==
  {<<>>, <<" ", "0", "x", "2">>, <<"z">>, <<"U+0662">>}
  \cup {DecDigitsOf(n) : n \in 0..MaxCount}

\* --------------------------------------------------------------- actions
\* Invoke with the loop entered before the count is tested: count 0 runs
\* one iteration.
Invoke_DoWhile(over, arg) ==
  /\ ctl = "idle"
  /\ invokes < MaxInvokes
  /\ \E n \in {IF Strip(arg) = <<>> THEN [ok |-> TRUE, val |-> 1]
               ELSE PyInt0(Strip(arg))} :
         /\ invokes' = invokes + 1
         /\ next_over_call' = over
         /\ log' = <<>>
         /\ bps' = <<>>
         /\ err' = IF n.ok THEN "none" ELSE "value"
         /\ remaining' = IF n.ok /\ n.val > 0 THEN n.val ELSE IF n.ok THEN 1 ELSE 0
         /\ ctl' = IF n.ok THEN "iter" ELSE "idle"
  /\ UNCHANGED <<tpc, stack, alive, hostBps, rejected, oldGdb>>

\* SSI.invoke / NNI.invoke up to the loop head: parse the count and enter
\* "for _ in range(n)".
Invoke(over, arg) ==
  /\ ctl = "idle"
  /\ invokes < MaxInvokes
  /\ \E n \in {IF Strip(arg) = <<>> THEN [ok |-> TRUE, val |-> 1]
               ELSE PyInt0(Strip(arg))} :
         /\ invokes' = invokes + 1
         /\ next_over_call' = over
         /\ log' = <<>>
         /\ bps' = <<>>
         /\ err' = IF n.ok THEN "none" ELSE "value"
         /\ remaining' = IF n.ok /\ n.val > 0 THEN n.val ELSE 0
         /\ ctl' = IF n.ok /\ n.val > 0 THEN "iter" ELSE "idle"
  /\ UNCHANGED <<tpc, stack, alive, hostBps, rejected, oldGdb>>

SSI_invoke(arg) == Invoke(FALSE, arg)

NNI_invoke(arg) == Invoke(TRUE, arg)

\* The name of the iteration at the loop head: the command's number and the
\* iteration's index in it.
ThisIter == <<invokes, Len(log) + 1>>

\* The exception e leaves _step_like and, through the loop, the command.
Raise(e, host, rec) ==
  /\ ctl' = "idle"
  /\ err' = e
  /\ remaining' = 0
  /\ bps' = <<>>
  /\ hostBps' = host
  /\ log' = Append(log, [rec EXCEPT !.err = e])
  /\ UNCHANGED <<tpc, stack, alive, rejected, oldGdb, next_over_call,
                 invokes>>

\* _disas2 and the two _parse_insn calls of _step_like on the disassembly
\* at pc: ok = FALSE when one of them raises.
Decode(pc) ==
  LET d == _disas2(XOut(pc))
  IN  IF ~d.ok THEN [ok |-> FALSE, cur |-> None, mnem |-> <<>>, op |-> <<>>, nxt |-> None]
      ELSE LET i0 == _parse_insn(d.l0)
               i1 == _parse_insn(d.l1)
           IN  IF ~i0.ok \/ ~i1.ok
               THEN [ok |-> FALSE, cur |-> None, mnem |-> <<>>, op |-> <<>>, nxt |-> None]
               ELSE [ok |-> TRUE, cur |-> i0.addr, mnem |-> i0.mnem, op |-> i0.op,
                     nxt |-> i1.addr]

\* Every address the program counter can hold.
PcRange == Mapped \cup {Insn[a].next : a \in Mapped}

DecodeAt == [pc \in PcRange |-> Decode(pc)]

\* _step_like without the try/finally around "continue": an exception from
\* the resume leaves the function with the breakpoints still set.
_step_like_nofinally ==
  /\ ctl = "iter"
  /\ LET rec0 == [pc0 |-> tpc, hb0 |-> hostBps, left |-> remaining, top |-> StackTop,
                  addrs |-> <<>>, made |-> {}, resumed |-> FALSE,
                  stop |-> "none", err |-> "none", read |-> "none"]
     IN  IF ~alive THEN Raise("gdb", hostBps, rec0)
         ELSE \E d \in {DecodeAt[tpc]} :
           IF ~d.ok THEN Raise("decode", hostBps, rec0)
           ELSE \E readable \in (IF IsRet(d.mnem) THEN BOOLEAN ELSE {TRUE}) :
             \E addrs \in {Classify(next_over_call, d.mnem, d.op, d.nxt,
                                    _read_u64(readable))} :
             \E sb \in {_set_temp_bps(addrs, hostBps, ThisIter)} :
               LET rec1 == [rec0 EXCEPT
                              !.addrs = addrs,
                              !.made = {b.id : b \in sb.host \ hostBps},
                              !.read = IF ~IsRet(d.mnem) THEN "none"
                                       ELSE IF readable THEN "ok" ELSE "failed"]
               IN  IF ~sb.ok THEN Raise("breakpoint", sb.host, rec1)
                   ELSE \/ /\ ctl' = "running"
                           /\ bps' = sb.bps
                           /\ hostBps' = sb.host
                           /\ log' = Append(log, [rec1 EXCEPT !.resumed = TRUE])
                                                    /\ UNCHANGED <<tpc, stack, alive, rejected,
                                          oldGdb, next_over_call, remaining, err,
                                          invokes>>
                        \/ Raise("resume", sb.host, rec1)

\* One iteration of the loop up to the point where "continue" has resumed
\* the target (ctl' = "running") or an exception has left the iteration.
_step_like ==
  /\ ctl = "iter"
  /\ LET rec0 == [pc0 |-> tpc, hb0 |-> hostBps, left |-> remaining, top |-> StackTop,
                  addrs |-> <<>>, made |-> {}, resumed |-> FALSE,
                  stop |-> "none", err |-> "none", read |-> "none"]
     IN  IF ~alive THEN Raise("gdb", hostBps, rec0)
         ELSE \E d \in {DecodeAt[tpc]} :
           IF ~d.ok THEN Raise("decode", hostBps, rec0)
           ELSE \E readable \in (IF IsRet(d.mnem) THEN BOOLEAN ELSE {TRUE}) :
             \E addrs \in {Classify(next_over_call, d.mnem, d.op, d.nxt,
                                    _read_u64(readable))} :
             \E sb \in {_set_temp_bps(addrs, hostBps, ThisIter)} :
               LET rec1 == [rec0 EXCEPT
                              !.addrs = addrs,
                              !.made = {b.id : b \in sb.host \ hostBps},
                              !.read = IF ~IsRet(d.mnem) THEN "none"
                                       ELSE IF readable THEN "ok" ELSE "failed"]
               IN  IF ~sb.ok THEN Raise("breakpoint", sb.host, rec1)
                   ELSE \/ /\ ctl' = "running"
                           /\ bps' = sb.bps
                           /\ hostBps' = sb.host
                           /\ log' = Append(log, [rec1 EXCEPT !.resumed = TRUE])
                                                    /\ UNCHANGED <<tpc, stack, alive, rejected,
                                          oldGdb, next_over_call, remaining, err,
                                          invokes>>
                        \/ Raise("resume", _delete_bps(sb.bps, sb.host), rec1)

\* "continue" returns with the target halted for cause: the host removes the
\* temporary breakpoints that were hit, the finally clause deletes the
\* iteration's breakpoints, and the loop goes to its next round.
Stop(cause, npc, nstack, nalive) ==
  LET hit == {b \in hostBps : cause \in {"candidate", "breakpoint"} /\ b.addr = npc}
      afterStop == hostBps \ {b \in hit : b.temp}
  IN  /\ tpc' = npc
      /\ stack' = nstack
      /\ alive' = nalive
      /\ hostBps' = _delete_bps(bps, afterStop)
      /\ bps' = <<>>
      /\ log' = [log EXCEPT ![Len(log)].stop = cause]
      /\ remaining' = remaining - 1
      /\ ctl' = IF remaining > 1 THEN "iter" ELSE "idle"
      /\ UNCHANGED <<rejected, oldGdb, next_over_call, err, invokes>>

Range(s) == {s[i] : i \in 1..Len(s)}

\* The resumed target executes the instruction at its program counter; it
\* halts when it exits, faults outside the mapped text or arrives at an
\* address that holds a breakpoint.
TargetExec ==
  /\ ctl = "running"
  /\ alive
  /\ tpc \in Mapped
  /\ LET i == Insn[tpc]
     IN  \E taken \in (IF i.kind = "jcc" THEN BOOLEAN ELSE {TRUE}) :
           LET exits == i.kind = "exit" \/ (i.kind = "ret" /\ stack = <<>>)
               npc == CASE i.kind = "lin" -> i.next
                        [] i.kind \in {"call", "icall"} -> i.tgt
                        [] i.kind \in {"jmp", "ijmp"} -> i.tgt
                        [] i.kind = "jcc" -> IF taken THEN i.tgt ELSE i.next
                        [] i.kind = "ret" -> IF stack = <<>> THEN tpc ELSE Head(stack)
                        [] OTHER -> tpc
               nstack == CASE i.kind \in {"call", "icall"} -> <<i.next>> \o stack
                           [] i.kind = "ret" /\ stack # <<>> -> Tail(stack)
                           [] OTHER -> stack
               hit == {b \in hostBps : b.addr = npc}
           IN  /\ i.kind \in {"call", "icall"} => Len(stack) < MaxStack
               /\ IF exits THEN Stop("exit", tpc, stack, FALSE)
                  ELSE IF npc \notin Mapped THEN Stop("signal", npc, nstack, TRUE)
                  ELSE IF hit # {}
                  THEN Stop(IF npc \in Range(log[Len(log)].addrs)
                            THEN "candidate" ELSE "breakpoint", npc, nstack, TRUE)
                  ELSE /\ tpc' = npc
                       /\ stack' = nstack
                       /\ UNCHANGED <<alive, hostBps, rejected, oldGdb, ctl,
                                      next_over_call, remaining, bps, err, invokes,
                                      log>>

\* An asynchronous signal halts the running target where it is.
TargetSignal ==
  /\ ctl = "running"
  /\ alive
  /\ Stop("signal", tpc, stack, TRUE)

\* ------------------------------------------------------------ the system
\* Where the session may stand when the first command is given: a program
\* counter with the call stack that goes with it.
Starts ==
  {<<a, <<>>>> : a \in {16, 22, 28, 32, 52, 53, 80}} \cup {<<51, <<28>>>>}

\* A breakpoint the user set before stepping.
UserBp ==
  [id |-> 1, addr |-> 50, temp |-> FALSE, internal |-> FALSE, iter |-> <<0, 0>>]

\* A breakpoint an earlier ssi / nni of the session left behind when it
\* aborted in _set_temp_bps at "je 0x1a" (0x18 accepted, 0x1a refused).
LeftBp ==
  [id |-> 2, addr |-> 24, temp |-> TRUE, internal |-> TRUE, iter |-> <<0, 1>>]

\* The hosts the session may run on: the addresses at which breakpoints are
\* refused, whether gdb.Breakpoint knows internal=, and the breakpoints the
\* host holds when the first command is given.
Hosts ==
  {[rejected |-> {}, oldGdb |-> FALSE, user |-> {}],
   [rejected |-> {}, oldGdb |-> TRUE, user |-> {}],
   [rejected |-> {}, oldGdb |-> FALSE, user |-> {UserBp}],
   [rejected |-> {26}, oldGdb |-> FALSE, user |-> {}],
   [rejected |-> {24, 26}, oldGdb |-> FALSE, user |-> {}],
   [rejected |-> {26}, oldGdb |-> TRUE, user |-> {UserBp}],
   [rejected |-> {26}, oldGdb |-> FALSE, user |-> {LeftBp}]}

Init ==
  /\ \E s \in Starts : tpc = s[1] /\ stack = s[2]
  /\ alive = TRUE
  /\ \E h \in Hosts : hostBps = h.user /\ rejected = h.rejected /\ oldGdb = h.oldGdb
  /\ ctl = "idle"
  /\ next_over_call = FALSE
  /\ remaining = 0
  /\ bps = <<>>
  /\ err = "none"
  /\ invokes = 0
  /\ log = <<>>

Next ==
  \/ \E arg \in Args : SSI_invoke(arg)
  \/ \E arg \in Args : NNI_invoke(arg)
  \/ _step_like
  \/ TargetExec
  \/ TargetSignal

Spec == Init /\ [][Next]_vars

\* --------------------------------------------- the system with progress
\* The sessions in which the commands' progress is followed: at the start
\* of main and at the conditional jump of the second mapping, on a host
\* that refuses nothing, with and without a breakpoint of the user's.
InitLive ==
  /\ Init
  /\ tpc \in {16, 80}
  /\ rejected = {}
  /\ ~oldGdb

\* The controller's code runs on once a command was given: an iteration at
\* the loop head is taken.  Whether and when the resumed target halts is up
\* to the target, and commands are up to the user: neither is assumed.
\* (_step_like is enabled exactly at the loop head and every step of it
\* leaves the loop head, for the wait or for the caller; LoopHeadLeft is
\* _step_like as far as ctl goes, so weak fairness of the one is weak
\* fairness of the other.)
LoopHeadLeft == ctl = "iter" /\ ctl' \in {"running", "idle"}

SpecLive == InitLive /\ [][Next]_vars /\ WF_ctl(LoopHeadLeft)

\* ================================================= the decoder on its own
\* The two lines _step_like hands to _parse_insn, taken over the shapes the
\* disassembler's lines have: "<marker><address>[ <label>]:<sep><mnemonic>
\* [<gap><operand>]".
Markers ==
  {<<>>,
   <<"=", ">", " ">>,
   <<"=", ">">>,
   <<" ", " ", " ">>}

\* Address texts with the value each one writes.
AddrTexts ==
  {[txt |-> <<"0", "x", "1", "0">>, val |-> 16],
   [txt |-> <<"0", "x", "2", "B">>, val |-> 43]}

Labels ==
  {<<>>,
   <<" ", "<", "f", "+", "0", "x", "4", ">">>}

Seps ==
  {<<"\t">>,
   <<" ">>}

Mnems ==
  {<<"n", "o", "p">>,
   <<"c", "a", "l", "l">>,
   <<"J", "N", "E">>}

Operands ==
  {<<>>,
   <<"0", "x", "3", "0", " ", "<", "f", ">">>,
   <<"e", "a", "x", ",", "f", "s", ":", "0", "x", "2", "8">>,
   <<"r", "a", "x">>}

Gaps ==
  {<<" ">>,
   <<" ", " ", " ">>}

\* A line with what it says: its text and the address, mnemonic and operand
\* it was written from.
ShapedLines ==
  {[text |-> mk \o a.txt \o lb \o <<":">> \o sp \o mn
               \o (IF op = <<>> THEN <<>> ELSE gp \o op),
    addr |-> a.val, mnem |-> mn, op |-> op] :
     mk \in Markers, a \in AddrTexts, lb \in Labels, sp \in Seps,
     mn \in Mnems, op \in Operands, gp \in Gaps}

\* Lines without a hexadecimal literal.
NoAddressLines ==
  {[text |-> t, addr |-> None, mnem |-> <<>>, op |-> <<>>] :
     t \in {<<"<", "u", "n", "a", "v", "a", "i", "l", "a", "b", "l", "e", ">">>,
        <<"=", ">", " ", "n", "o", "p">>,
        <<"0", "x", "g", "0", ":", "\t", "n", "o", "p">>}}

\* The second lines paired with every first line, and the first lines
\* paired with every second line.
FewLines ==
  {l \in ShapedLines \cup NoAddressLines :
     l.text \in {<<" ", " ", " ", "0", "x", "1", "0", ":", "\t", "n", "o", "p">>,
        <<"0", "x", "2", "B", " ", "<", "f", "+", "0", "x", "4", ">", ":", " ", "c", "a", "l", "l", " ", " ", " ", "0", "x", "3", "0", " ", "<", "f", ">">>,
        <<"<", "u", "n", "a", "v", "a", "i", "l", "a", "b", "l", "e", ">">>}}

\* The result recorded for a line _parse_insn was not called on.
NotParsed == [ok |-> FALSE, addr |-> None, mnem |-> <<>>, op |-> <<>>]

\* The head of _step_like on the output "x/2i $pc" made of the lines c0 and
\* c1: _disas2, then _parse_insn on the first line and, unless that raised,
\* on the second.
DecodeLines(c0, c1) ==
  /\ ctl = "idle"
  /\ log = <<>>
  /\ \E d \in {_disas2(c0.text \o <<"\n">> \o c1.text \o <<"\n">>)} :
       \E i0 \in {IF d.ok THEN _parse_insn(d.l0) ELSE NotParsed} :
         log' = <<[in0 |-> c0, in1 |-> c1, ok |-> d.ok, i0 |-> i0,
                   i1 |-> IF i0.ok THEN _parse_insn(d.l1) ELSE NotParsed]>>
  /\ UNCHANGED <<tpc, stack, alive, hostBps, rejected, oldGdb, ctl,
                 next_over_call, remaining, bps, err, invokes>>

InitDecode ==
  /\ tpc = 16
  /\ stack = <<>>
  /\ alive = TRUE
  /\ hostBps = {}
  /\ rejected = {}
  /\ oldGdb = FALSE
  /\ ctl = "idle"
  /\ next_over_call = FALSE
  /\ remaining = 0
  /\ bps = <<>>
  /\ err = "none"
  /\ invokes = 0
  /\ log = <<>>

\* Every line next to each of the few, in both orders.
LinePairs ==
  LET all == ShapedLines \cup NoAddressLines
  IN  (FewLines \X all) \cup (all \X FewLines)

NextDecode == \E p \in LinePairs : DecodeLines(p[1], p[2])

SpecDecode == InitDecode /\ [][NextDecode]_vars


\* ================================================================ claims
Last == log[Len(log)]

\* Stop causes that are not an arrival at one of the iteration's candidates.
Unrelated == {"signal", "breakpoint", "exit"}

\* The breakpoints of the host's set that iteration i of the command in
\* progress created.
MadeBy(i) == {b \in hostBps : b.iter = <<invokes, i>>}

\* Iteration i got as far as computing its candidate addresses.
Decoded(i) == log[i].addrs # <<>>

\* ---- C1
\* C1: once an iteration has resumed the target and the target has stopped
\* (at a candidate, at an unrelated breakpoint, on a signal or by exiting),
\* none of the breakpoints that iteration created is in the host's set; so
\* at the loop head of every following iteration, and when the command is
\* over, nothing of a completed iteration is left.
C1_NoBreakpointOutlivesIteration ==
  \A i \in 1..Len(log) :
    (log[i].resumed /\ log[i].stop # "none") => MadeBy(i) = {}

\* A conditional jump armed two breakpoints, a signal stopped the target
\* before either was hit, and the next iteration is about to start.
C1_Witness ==
  /\ ctl = "iter"
  /\ Len(log) >= 1
  /\ Last.resumed
  /\ Last.stop = "signal"
  /\ Cardinality(Last.made) = 2
  /\ MadeBy(Len(log)) = {}

\* ---- C2
\* C2: when an iteration's target stops for an unrelated cause, the command
\* runs no further iteration: no iteration record follows one whose stop
\* was unrelated.
C2_StopsRepeatingOnUnrelatedStop ==
  \A i \in 1..Len(log) : log[i].stop \in Unrelated => i = Len(log)

\* ---- C3
\* C3: while the target runs, at least one breakpoint created by the
\* iteration in flight is armed; and an iteration all of whose candidates
\* the host rejects raises to the caller without resuming.
C3_NeverResumedUnarmed ==
  /\ ctl = "running" =>
       \E b \in MadeBy(Len(log)) : b.id \in Range(bps) /\ b.addr \in Range(Last.addrs)
  /\ \A i \in 1..Len(log) :
       (Decoded(i) /\ Range(log[i].addrs) \subseteq rejected) =>
         /\ ~log[i].resumed
         /\ log[i].err = "breakpoint"
         /\ i = Len(log) /\ err = "breakpoint" /\ ctl = "idle"

\* Both candidates of a conditional jump were rejected and the command
\* raised.
C3_Witness ==
  /\ Len(log) >= 1
  /\ Len(Last.addrs) = 2
  /\ Range(Last.addrs) \subseteq rejected
  /\ err = "breakpoint"
  /\ ~Last.resumed

\* ---- C4
\* C4: an iteration fails on a rejected breakpoint only if every candidate
\* is rejected; with one candidate accepted it still resumes the target.
C4_PartialRejectionStillResumes ==
  \A i \in 1..Len(log) :
    (Decoded(i) /\ \E a \in Range(log[i].addrs) : a \notin rejected) =>
      log[i].err # "breakpoint"

\* ---- C5
\* C5: when control is back at the caller, every breakpoint the command's
\* iterations created has been destroyed, also after an iteration that
\* aborted with some of its breakpoints already created.
C5_NoLeakOnAbort ==
  ctl = "idle" => \A i \in 1..Len(log) : MadeBy(i) = {}

\* ---- C6
\* The raw disassembly at pc is structurally undecodable: fewer than two
\* non-empty lines, or one of the first two without a hexadecimal literal.
HasHexLiteral(l) ==
  \E i \in 1..(Len(l) - 2) : l[i] = "0" /\ l[i + 1] = "x" /\ IsHex(l[i + 2])

StructuralFailure(pc) ==
  LET ls == SelectSeq(SplitLines(XOut(pc)),
                      LAMBDA l : \E i \in 1..Len(l) : l[i] \notin Whitespace)
  IN  Len(ls) < 2 \/ ~HasHexLiteral(ls[1]) \/ ~HasHexLiteral(ls[2])

StructFailPcs == {pc \in PcRange : StructuralFailure(pc)}

\* C6: an iteration that starts (with a live target) where the disassembly
\* is structurally undecodable raises a decode error to the caller, has
\* created no breakpoint and not resumed, leaves the host's breakpoint set
\* and the program counter as they were, and is the command's last.
C6_DecodeFailureAborts ==
  \A i \in 1..Len(log) :
    (log[i].pc0 \in StructFailPcs /\ log[i].err # "gdb") =>
      /\ log[i].err = "decode"
      /\ log[i].made = {}
      /\ ~log[i].resumed
      /\ i = Len(log)
      /\ ctl = "idle" /\ err = "decode" /\ remaining = 0
      /\ hostBps = log[i].hb0
      /\ tpc = log[i].pc0

\* The second iteration of a command with more iterations to go failed to
\* decode.
C6_Witness ==
  /\ Len(log) >= 2
  /\ Last.err = "decode"
  /\ Last.left > 1
  /\ ctl = "idle"

\* ---- C7
RECURSIVE LinSucc(_, _)
LinSucc(a, k) == IF k = 0 THEN a ELSE LinSucc(Insn[a].next, k - 1)

IsLinear(pc) == pc \in Mapped /\ Insn[pc].kind = "lin"

\* C7: every iteration that decodes an ordinary linear instruction arms
\* exactly one breakpoint, at its fall-through address; and a command given
\* count k that meets only linear instructions and no unrelated stop (and
\* no error) ends after exactly k iterations with the program counter at
\* the k-th linear successor of where it started.
C7_LinearSteps ==
  /\ \A i \in 1..Len(log) :
       (IsLinear(log[i].pc0) /\ log[i].resumed) =>
         /\ log[i].addrs = <<Insn[log[i].pc0].next>>
         /\ Cardinality(log[i].made) = 1
  /\ (/\ ctl = "idle" /\ err = "none" /\ Len(log) > 0
      /\ \A i \in 1..Len(log) :
           IsLinear(log[i].pc0) /\ log[i].stop \notin Unrelated) =>
       /\ Len(log) = log[1].left
       /\ tpc = LinSucc(log[1].pc0, log[1].left)

\* ssi 3 / nni 3 from 0x10 over nop, mov, push ended at 0x14.
C7_Witness ==
  /\ ctl = "idle" /\ err = "none"
  /\ Len(log) = 3
  /\ log[1].left = 3
  /\ \A i \in 1..3 : IsLinear(log[i].pc0) /\ log[i].stop = "candidate"
  /\ log[1].pc0 = 16
  /\ tpc = 20

\* ---- C8
\* C8: an iteration that decodes a return instruction, in either mode, reads
\* [rsp] and has exactly one candidate: the value read when the read
\* succeeds, the fall-through address when it fails; the failed read raises
\* nothing, and the iteration resumes unless the host refuses the
\* breakpoint or the resume.
C8_ReturnCandidates ==
  \A i \in 1..Len(log) :
    (log[i].pc0 \in Mapped /\ Insn[log[i].pc0].kind = "ret"
       /\ log[i].err \notin {"gdb", "decode"}) =>
      /\ log[i].read \in {"ok", "failed"}
      /\ log[i].read = "ok" => log[i].addrs = <<log[i].top>>
      /\ log[i].read = "failed" => log[i].addrs = <<Insn[log[i].pc0].next>>
      /\ log[i].err \in {"none", "breakpoint", "resume"}
      /\ (log[i].err = "none") = log[i].resumed
      /\ log[i].err = "breakpoint" => log[i].addrs[1] \in rejected

\* nni at "RETQ 0x8" with an unreadable [rsp]: the fall-through address is
\* armed and the target is running.
C8_Witness ==
  /\ ctl = "running"
  /\ next_over_call
  /\ Last.pc0 = 51
  /\ Last.read = "failed"
  /\ Last.addrs = <<52>>
  /\ Last.resumed

\* ---- C9
\* C9: an iteration that decodes a direct call has the single candidate F
\* (fall-through) under nni and the single candidate T (the call's target)
\* under ssi.
C9_DirectCall ==
  \A i \in 1..Len(log) :
    (log[i].pc0 \in Mapped /\ Insn[log[i].pc0].kind = "call" /\ Decoded(i)) =>
      log[i].addrs = IF next_over_call THEN <<Insn[log[i].pc0].next>>
                     ELSE <<Insn[log[i].pc0].tgt>>

\* ssi at "call 0x30": only 0x30 is armed and the target is running.
C9_Witness ==
  /\ ctl = "running"
  /\ ~next_over_call
  /\ Last.pc0 = 20
  /\ Last.addrs = <<48>>
  /\ {b.addr : b \in MadeBy(Len(log))} = {48}

\* ---- C10
\* C10: under ssi, an iteration that decodes an indirect call (through a
\* register or a memory operand, with or without a displacement) has the
\* fall-through address as its only candidate.
C10_IndirectCallFallsThrough ==
  \A i \in 1..Len(log) :
    (~next_over_call /\ log[i].pc0 \in Mapped
       /\ Insn[log[i].pc0].kind = "icall" /\ Decoded(i)) =>
      log[i].addrs = <<Insn[log[i].pc0].next>>

\* ---- C11
\* The instruction at pc is an unconditional jump; its operand is an address
\* literal when it is direct ("jmp") and a register when it is indirect
\* ("ijmp").
IsJump(pc) == pc \in Mapped /\ Insn[pc].kind \in {"jmp", "ijmp"}

\* C11: in both modes, an iteration that decodes an unconditional jump
\* (jmp, JMPQ) has exactly one candidate: the target T when the operand
\* names one, the fall-through address when it names none; and while the
\* target runs after a jump with a target, the iteration's only breakpoint
\* is at T, none is at the fall-through address.
C11_UnconditionalJump ==
  /\ \A i \in 1..Len(log) :
       (IsJump(log[i].pc0) /\ Decoded(i)) =>
         log[i].addrs = IF HasHexLiteral(DecodeAt[log[i].pc0].op)
                        THEN <<Insn[log[i].pc0].tgt>>
                        ELSE <<Insn[log[i].pc0].next>>
  /\ (ctl = "running" /\ Len(log) > 0 /\ IsJump(Last.pc0)
        /\ Insn[Last.pc0].kind = "jmp") =>
       {b.addr : b \in MadeBy(Len(log))} = {Insn[Last.pc0].tgt}

\* nni at "JMPQ 0x34" (fall-through 0x54): only 0x34 is armed and the
\* target is running.
C11_Witness ==
  /\ ctl = "running"
  /\ next_over_call
  /\ Last.pc0 = 82
  /\ Last.addrs = <<52>>
  /\ {b.addr : b \in MadeBy(Len(log))} = {52}

\* ---- C12
IsCondJump(pc) == pc \in Mapped /\ Insn[pc].kind = "jcc"

\* Where the target stood when iteration i was over.
PcAfter(i) == IF i < Len(log) THEN log[i + 1].pc0 ELSE tpc

\* C12 as stated: in both modes, an iteration that decodes a conditional
\* jump with fall-through F has the candidates {F, T} when its operand names
\* a target T and {F} when it names none, and whichever way the branch goes
\* the resumed target does not get past the branch: it stands at the branch
\* until it halts, and it halts either on a signal before the branch
\* executed or at an armed candidate right after it.  This fails for a
\* branch whose operand names no target ("jb rdx" at 0x50): only F is armed
\* and the taken branch runs on from T.
C12_AsStated ==
  \A i \in 1..Len(log) :
    (IsCondJump(log[i].pc0) /\ Decoded(i)) =>
      LET F == Insn[log[i].pc0].next
          T == Insn[log[i].pc0].tgt
          named == HasHexLiteral(DecodeAt[log[i].pc0].op)
      IN  /\ Range(log[i].addrs) = IF named THEN {F, T} ELSE {F}
          /\ log[i].resumed =>
               /\ log[i].stop = "none" => (ctl = "running" /\ tpc = log[i].pc0)
               /\ log[i].stop # "none" =>
                    \/ log[i].stop = "candidate" /\ PcAfter(i) \in Range(log[i].addrs)
                    \/ log[i].stop = "signal" /\ PcAfter(i) = log[i].pc0

\* C12, amended: the candidates are {F, T} when the operand names a target
\* T and {F} when it names none, in both modes.  With a target named, the
\* resumed target does not get past the branch: it stands at the branch
\* until it halts, and it halts either on a signal before the branch
\* executed or at F or T, an armed candidate, right after it.  With none
\* named, that holds only of the branch not taken: a halt at a candidate is
\* a halt at F, and while the target has not halted it stands at the branch
\* or has taken it and runs on from T, where nothing is armed.
C12_ConditionalBranch ==
  \A i \in 1..Len(log) :
    (IsCondJump(log[i].pc0) /\ Decoded(i)) =>
      LET F == Insn[log[i].pc0].next
          T == Insn[log[i].pc0].tgt
          named == HasHexLiteral(DecodeAt[log[i].pc0].op)
      IN  /\ Range(log[i].addrs) = IF named THEN {F, T} ELSE {F}
          /\ (named /\ log[i].resumed) =>
               /\ log[i].stop = "none" => (ctl = "running" /\ tpc = log[i].pc0)
               /\ log[i].stop # "none" =>
                    \/ log[i].stop = "candidate" /\ PcAfter(i) \in {F, T}
                    \/ log[i].stop = "signal" /\ PcAfter(i) = log[i].pc0
          /\ (~named /\ log[i].resumed) =>
               /\ log[i].stop = "none" =>
                    (ctl = "running" /\ tpc \in {log[i].pc0, T})
               /\ log[i].stop = "candidate" => PcAfter(i) = F
               /\ PcAfter(i) = T => log[i].stop \in {"none", "signal"}

\* "je 0x1a" at 0x16 was taken: both 0x18 and 0x1a had been armed and the
\* target halted at 0x1a, and the same command has stepped on from there.
C12_Witness ==
  /\ Len(log) >= 2
  /\ log[1].pc0 = 22
  /\ Range(log[1].addrs) = {24, 26}
  /\ Cardinality(log[1].made) = 2
  /\ log[1].stop = "candidate"
  /\ log[2].pc0 = 26

\* ---- C13
\* C13: when the target halts at a candidate, the breakpoint that was hit
\* has removed itself and its delete() in the cleanup fails.  That failure
\* is not raised to the caller, every other breakpoint of the iteration is
\* deleted all the same, and the loop goes on as after any other stop: the
\* next repetition starts when one is left, else the command returns
\* without error.
C13_CleanupBestEffortAndTotal ==
  \A i \in 1..Len(log) :
    log[i].stop = "candidate" =>
      /\ log[i].err = "none"
      /\ MadeBy(i) = {}
      /\ i = Len(log) =>
           /\ err = "none"
           /\ ctl = IF log[i].left > 1 THEN "iter" ELSE "idle"
      /\ i < Len(log) => log[i + 1].left = log[i].left - 1

\* "je 0x1a" at 0x16 fell through to 0x18, the candidate whose breakpoint
\* was created first: its delete() failed, the breakpoint at 0x1a is gone
\* too, and the second repetition has resumed the target.
C13_Witness ==
  /\ Len(log) = 2
  /\ log[1].pc0 = 22
  /\ log[1].addrs = <<24, 26>>
  /\ Cardinality(log[1].made) = 2
  /\ log[1].stop = "candidate"
  /\ log[2].pc0 = 24
  /\ log[2].resumed
  /\ MadeBy(1) = {}
  /\ err = "none"

\* ---- C14
\* The decoder's result i is what the line c was written from.
DecodedAs(c, i) ==
  IF c.addr = None THEN ~i.ok
  ELSE /\ i.ok
       /\ i.addr = c.addr
       /\ i.mnem = c.mnem
       /\ i.op = c.op

\* C14 (under SpecDecode): for two lines "<address>[ <label>]: <mnemonic>
\* [operand]", each with or without the "=>" marker and leading blanks, the
\* decoder returns for each line the value of its first hexadecimal literal
\* as the address, the first blank-delimited token after the first colon as
\* the mnemonic and the rest, stripped, as the operand; a line without an
\* operand gives the empty operand and no error; a line without a
\* hexadecimal literal raises the parse error.
C14_DecodesLines ==
  \A k \in 1..Len(log) :
    /\ log[k].ok
    /\ DecodedAs(log[k].in0, log[k].i0)
    /\ log[k].i0.ok => DecodedAs(log[k].in1, log[k].i1)

\* "=> 0x10 <f+0x4>:\tnop" decoded to (0x10, "nop", "") and the line after
\* it, "0x2B <f+0x4>: call   0x30 <f>", to (0x2B, "call", "0x30 <f>").
C14_Witness ==
  /\ Len(log) = 1
  /\ StartsWith(log[1].in0.text, <<"=", ">", " ", "0", "x", "1", "0", " ", "<">>)
  /\ log[1].i0 = [ok |-> TRUE, addr |-> 16, mnem |-> <<"n", "o", "p">>, op |-> <<>>]
  /\ log[1].i1 = [ok |-> TRUE, addr |-> 43, mnem |-> <<"c", "a", "l", "l">>,
                  op |-> <<"0", "x", "3", "0", " ", "<", "f", ">">>]

\* ---- C15
\* The breakpoints of the host's set that the stepping engine created (the
\* user's own carry the iteration name <<0, 0>>).
EngineBps == {b \in hostBps : b.iter # <<0, 0>>}

\* C15: every breakpoint the engine has created is temporary (the host
\* deletes it when it is hit) and internal (not shown in the user's
\* breakpoint listing), whichever way _set_temp_bps created it.
C15_TemporaryAndHidden ==
  \A b \in EngineBps : b.temp /\ b.internal

\* ---- C16
IsCallClass(pc) == pc \in Mapped /\ Insn[pc].kind \in {"call", "icall"}

\* What the iteration recorded last would have asked of the host in the
\* mode over: the candidates from the same decoded instruction and the same
\* result of reading [rsp], and the breakpoints created for them in the
\* host's set as the iteration found it.
InMode(over) ==
  LET d == DecodeAt[Last.pc0]
      addrs == Classify(over, d.mnem, d.op, d.nxt,
                        [ok |-> Last.read # "failed", val |-> Last.top])
      sb == _set_temp_bps(addrs, Last.hb0, <<invokes, Len(log)>>)
  IN  [addrs |-> addrs, ok |-> sb.ok, made |-> {b.id : b \in sb.host \ Last.hb0},
       at |-> {b.addr : b \in sb.host \ Last.hb0}]

\* C16: an iteration on an instruction that is not call-class (a return, a
\* jump, a conditional jump, a linear instruction) is the same under ssi
\* and nni: the candidates it computed, the breakpoints it asked the host
\* for and whether it got to resume are those of the other mode too.
\* (Stated of the newest record while its iteration has not stopped; every
\* record is that once.)
C16_ModesAgreeOffCalls ==
  (Len(log) > 0 /\ Decoded(Len(log)) /\ Last.stop = "none"
     /\ ~IsCallClass(Last.pc0)) =>
    \A other \in {InMode(~next_over_call)} :
      /\ InMode(next_over_call) = other
      /\ Last.addrs = other.addrs
      /\ Last.made = other.made
      /\ Last.resumed => other.ok

\* nni at "je 0x1a": both candidates armed and the target running, as ssi
\* does there.
C16_Witness ==
  /\ ctl = "running"
  /\ next_over_call
  /\ Last.pc0 = 22
  /\ InMode(FALSE).addrs = <<24, 26>>
  /\ {b.addr : b \in MadeBy(Len(log))} = {24, 26}

\* ---- C17
\* C17: every iteration that decoded its instruction, in either mode, has
\* one or two candidate addresses, never none; and at every moment the
\* host's set holds at most two breakpoints created by the stepping engine.
C17_OneOrTwoCandidates ==
  /\ \A i \in 1..Len(log) :
       log[i].err \notin {"gdb", "decode"} =>
         Cardinality(Range(log[i].addrs)) \in {1, 2}
  /\ Cardinality(EngineBps) <= 2

\* ---- C18
\* C18: an iteration that armed all its candidates created as many
\* breakpoints as it has distinct candidate addresses, one per address,
\* also when the target of a conditional jump is its fall-through address.
C18_OneBreakpointPerAddress ==
  \A i \in 1..Len(log) :
    log[i].resumed => Cardinality(log[i].made) = Cardinality(Range(log[i].addrs))

\* ---- C19
\* C19: when "continue" itself raises after the iteration's breakpoints
\* were created, the breakpoints are deleted (the host's set is again what
\* the iteration found), the error is the one the command ends with, and
\* no repetition follows.
C19_ResumeFailureCleansUp ==
  \A i \in 1..Len(log) :
    log[i].err = "resume" =>
      /\ log[i].made # {}
      /\ MadeBy(i) = {}
      /\ hostBps = log[i].hb0
      /\ i = Len(log)
      /\ ctl = "idle" /\ err = "resume" /\ remaining = 0

\* The resume of the first of several repetitions failed at "je 0x1a" with
\* two breakpoints created; both are gone and the command is over.
C19_Witness ==
  /\ Len(log) = 1
  /\ Last.err = "resume"
  /\ Last.left > 1
  /\ Last.pc0 = 22
  /\ Cardinality(Last.made) = 2
  /\ MadeBy(1) = {}
  /\ ctl = "idle"

\* ---- C20
\* The count each argument text stands for (none for the text that is not
\* a number: the command raises before its loop).
CountOf ==
  [a \in Args |->
     IF a = <<>> THEN 1
     ELSE IF a = <<" ", "0", "x", "2">> THEN 2
     ELSE IF a = <<"z">> THEN 0
     ELSE IF a = <<"U+0662">> THEN 2
     ELSE CHOOSE n \in 0..MaxCount : DecDigitsOf(n) = a]

\* The iterations of the command in progress count down from its count, so
\* there are at most count of them, each with at most one resume.
CountsDown ==
  \A i \in 1..Len(log) : log[i].left >= 1 /\ log[i].left = log[1].left - (i - 1)

\* A command is given its count; with count 0 it returns at once, without
\* an iteration and with the host's breakpoints and the target untouched.
InvokeTakesCount ==
  \A arg \in Args :
    (SSI_invoke(arg) \/ NNI_invoke(arg)) =>
      /\ remaining' = CountOf[arg]
      /\ CountOf[arg] = 0 =>
           ctl' = "idle" /\ log' = <<>> /\ hostBps' = hostBps /\ tpc' = tpc

\* An iteration is one of those that remain.
IterationTakesOne ==
  Len(log') > Len(log) => (ctl = "iter" /\ log'[Len(log')].left = remaining)

\* The wait for the resumed target ends only with a halt of the target.
WaitEndsOnHalt ==
  (ctl = "running" /\ ctl' # "running") => log'[Len(log')].stop # "none"

\* C20 (under SpecLive): ssi / nni with count resume the target at most
\* count times, and not at all, with nothing decoded or created, when count
\* is 0; if every wait for the resumed target ends, every command returns;
\* and nothing but a halt of the target ends a wait, so a command whose
\* target never halts never returns.
C20_BoundedAndNoTimeout ==
  /\ []CountsDown
  /\ [][InvokeTakesCount]_vars
  /\ [][IterationTakesOne]_vars
  /\ [][WaitEndsOnHalt]_vars
  /\ ([](ctl = "running" => <>(ctl # "running")))
       => [](ctl # "idle" => <>(ctl = "idle"))

\* "jb rdx" at 0x50 had only its fall-through address armed and was taken:
\* the target spins at 0x54, where no breakpoint is, and the command with
\* repetitions left is still waiting.
C20_Witness ==
  /\ ctl = "running"
  /\ Last.pc0 = 80
  /\ Last.left > 1
  /\ tpc = 84
  /\ \A b \in hostBps : b.addr # 84

====
